---- MODULE Spec2Model ----
(***************************************************************************)
(* A model of the Kharkov-1926 extraction pipeline                         *)
(* (src/kharkov1926_llm_pipeline_v6.py): model-response parsing, variant   *)
(* detection, initials normalization, the nationality sanity filter, the   *)
(* region cropper, the nearest-following pairer, the resumable downloader, *)
(* the single-pair pipeline run, the batch runners, the directory          *)
(* classifier, and the JSON files written by src/app.py and their readers. *)
(*                                                                         *)
(* Text is modelled as a sequence of Unicode code points (naturals), so    *)
(* that lower(), upper(), translate() and the regular expressions act on   *)
(* characters as Python does.  A model response is modelled as a sequence  *)
(* of JSON tokens.  Each component has its own specification; the          *)
(* variables of the other components stay at their idle values.            *)
(***************************************************************************)
EXTENDS Integers, Sequences, FiniteSets, TLC

VARIABLES
    \* parse_json_or_extract / detect_variant_from_page1
    p_pc, text, out, det,
    \* normalize_initial_str / normalize_initials_dict
    n_pc, n_in, n_out,
    \* fix_nationality_sanity
    s_pc, nat,
    \* crop_percent
    c_pc, c_in, c_box,
    \* pair_by_nearest
    pr_pc, classified, p1s, p2s, used_p2, pairs, pr_i,
    \* download_image_range
    d_pc, job, run, idx, attempt, existing, mode, rangeHdr, resp, sent,
    final, part, downloaded, skipped, errors, slept, killedAt, status,
    \* run_pipeline
    pl_pc, enforce_initials, variant, nationality, needs_manual_review,
    right_raw, initials_norm, r_surname, fio_ret, fio, conflict, parsed, result,
    review, steps,
    \* run_batch / run_batch_from_pairs
    b_pc, b_fn, b_n, b_i, b_flag, b_items, b_saved, b_raised,
    \* classify_directory
    k_pc, k_n, k_i, k_classified, k_details,
    \* the JSON files of a session and their readers
    j_pc, j_path, j_ver, j_disk, j_seen,
    \* the output subdirectories of the pairs of a batch
    o_pc, input_dir, o_pairs, o_i, o_tree,
    \* _download_worker
    w_pc, params, env, prog, progress_json, async_result

parseVars == <<p_pc, text, out, det>>
normVars  == <<n_pc, n_in, n_out>>
sanVars   == <<s_pc, nat>>
cropVars  == <<c_pc, c_in, c_box>>
pairVars  == <<pr_pc, classified, p1s, p2s, used_p2, pairs, pr_i>>
dlVars    == <<d_pc, job, run, idx, attempt, existing, mode, rangeHdr, resp, sent,
               final, part, downloaded, skipped, errors, slept, killedAt, status>>
pipeVars  == <<pl_pc, enforce_initials, variant, nationality, needs_manual_review,
               right_raw, initials_norm, r_surname, fio_ret, fio, conflict, parsed, result,
               review, steps>>
batchVars == <<b_pc, b_fn, b_n, b_i, b_flag, b_items, b_saved, b_raised>>
classVars == <<k_pc, k_n, k_i, k_classified, k_details>>
jsonVars  == <<j_pc, j_path, j_ver, j_disk, j_seen>>
treeVars  == <<o_pc, input_dir, o_pairs, o_i, o_tree>>
workVars  == <<w_pc, params, env, prog, progress_json, async_result>>
vars == <<parseVars, normVars, sanVars, cropVars, pairVars, dlVars, pipeVars,
          batchVars, classVars, jsonVars, treeVars, workVars>>

\* Python's None, and a value no step has produced yet.
None == "None"

IdleParse == p_pc = "idle" /\ text = <<>> /\ out = None /\ det = None
IdleNorm  == n_pc = "idle" /\ n_in = <<>> /\ n_out = None
IdleSan   == s_pc = "idle" /\ nat = None
IdleCrop  == c_pc = "idle" /\ c_in = None /\ c_box = None
IdlePair  == /\ pr_pc = "idle" /\ classified = None /\ p1s = <<>> /\ p2s = <<>>
             /\ used_p2 = {} /\ pairs = <<>> /\ pr_i = 0
IdleDl    == /\ d_pc = "idle" /\ job = None /\ run = 0 /\ idx = 0 /\ attempt = 0
             /\ existing = 0 /\ mode = None /\ rangeHdr = FALSE /\ resp = <<>>
             /\ sent = 0 /\ final = <<>> /\ part = <<>> /\ downloaded = 0
             /\ skipped = 0 /\ errors = <<>> /\ slept = <<>> /\ killedAt = {}
             /\ status = 0
IdlePipe  == /\ pl_pc = "idle" /\ enforce_initials = FALSE /\ variant = None
             /\ nationality = None /\ needs_manual_review = FALSE
             /\ right_raw = None /\ initials_norm = None /\ r_surname = None
             /\ fio_ret = None /\ fio = None /\ conflict = FALSE /\ parsed = None
             /\ result = None /\ review = None /\ steps = <<>>
IdleBatch == /\ b_pc = "idle" /\ b_fn = None /\ b_n = 0 /\ b_i = 0 /\ b_flag = FALSE
             /\ b_items = <<>> /\ b_saved = {} /\ b_raised = {}
IdleClass == /\ k_pc = "idle" /\ k_n = 0 /\ k_i = 0 /\ k_classified = None
             /\ k_details = <<>>
IdleJson  == /\ j_pc = "idle" /\ j_path = None /\ j_ver = 0 /\ j_disk = <<>>
             /\ j_seen = None
IdleTree  == /\ o_pc = "idle" /\ input_dir = {} /\ o_pairs = <<>> /\ o_i = 0
             /\ o_tree = {}
IdleWork  == /\ w_pc = "idle" /\ params = None /\ env = None /\ prog = None
             /\ progress_json = None /\ async_result = None

\* Every sequence over S of length at most n.
SeqsUpTo(S, n) == UNION {[1..k -> S] : k \in 0..n}

(***************************************************************************)
(* Model responses and parse_json_or_extract                               *)
(***************************************************************************)

\* Bound on the number of JSON tokens of a response text.
MaxTextLen == 5

\* The tokens a response text is made of: the four brackets, the member key
\* "variant" with its colon, three scalar literals and a character of prose.
KV == "\"variant\":"
UA == "\"ua\""
RU == "\"ru\""
Scalars == {UA, RU, "7"}
Tokens == {"{", "}", "[", "]", KV, "x"} \cup Scalars

\* A JSON value, held as its kind and its token span; the tagged error object
\* {"error": "bad_json", "raw_content": text} has error = TRUE and src = text.
JsonValue(kind, src) == [kind |-> kind, error |-> FALSE, src |-> src]
BadJson(t) == [kind |-> "object", error |-> TRUE, src |-> t]
Raised == [kind |-> "raise", error |-> FALSE, src |-> <<>>]

KindOf(tok) ==
    CASE tok = "{" -> "object"
      [] tok = "[" -> "list"
      [] tok \in {UA, RU} -> "string"
      [] OTHER -> "number"

\* The decoder of json.loads: the index after the value that starts at t[i],
\* or 0 when no value starts there.
RECURSIVE ParseValue(_, _)
ParseValue(t, i) ==
    IF i > Len(t) THEN 0
    ELSE IF t[i] \in Scalars THEN i + 1
    ELSE IF t[i] = "[" THEN
        IF i + 1 <= Len(t) /\ t[i + 1] = "]" THEN i + 2
        ELSE LET j == ParseValue(t, i + 1)
             IN  IF j # 0 /\ j <= Len(t) /\ t[j] = "]" THEN j + 1 ELSE 0
    ELSE IF t[i] = "{" THEN
        IF i + 1 <= Len(t) /\ t[i + 1] = "}" THEN i + 2
        ELSE IF i + 1 <= Len(t) /\ t[i + 1] = KV THEN
            LET j == ParseValue(t, i + 2)
            IN  IF j # 0 /\ j <= Len(t) /\ t[j] = "}" THEN j + 1 ELSE 0
        ELSE 0
    ELSE 0

\* json.loads(t): the value of the whole text, or an exception (extra data
\* after the value is an error too).
json_loads(t) ==
    IF ParseValue(t, 1) = Len(t) + 1 THEN JsonValue(KindOf(t[1]), t) ELSE Raised

\* re.search(r"\{.*\}", t, re.S): with the greedy .* the match runs from the
\* first "{" to the last "}" of the text; <<>> when there is no match.
re_search_braces(t) ==
    LET opens  == {i \in 1..Len(t) : t[i] = "{"}
        closes == {i \in 1..Len(t) : t[i] = "}"}
    IN  IF opens = {} THEN <<>>
        ELSE LET a == CHOOSE i \in opens : \A k \in opens : i <= k
                 after == {i \in closes : i > a}
             IN  IF after = {} THEN <<>>
                 ELSE SubSeq(t, a, CHOOSE i \in after : \A k \in after : k <= i)

parse_json_or_extract(t) ==
    LET whole == json_loads(t)
    IN  IF whole.kind # "raise" THEN whole
        ELSE LET m == re_search_braces(t)
             IN  IF m # <<>> /\ json_loads(m).kind # "raise"
                 THEN json_loads(m)
                 ELSE BadJson(t)

(***************************************************************************)
(* detect_variant_from_page1                                               *)
(***************************************************************************)

isinstance_dict(v) == v.kind = "object"

\* v.get("variant") of a JSON object: its token span, <<>> for None.
get_variant(v) ==
    IF ~v.error /\ Len(v.src) > 2 /\ v.src[2] = KV
    THEN SubSeq(v.src, 3, Len(v.src) - 1)
    ELSE <<>>

\* What the detection returns for the parsed answer d: the variant, or the
\* AttributeError of d.get on a value that is no dict.
detect_variant_from_page1(d) ==
    LET v  == IF isinstance_dict(d) THEN get_variant(d) ELSE <<>>
        vv == IF v = <<UA>> THEN "ua" ELSE IF v = <<RU>> THEN "ru" ELSE "ua"
    IN  IF isinstance_dict(d)
        THEN [raised |-> FALSE, variant |-> vv]
        ELSE [raised |-> TRUE, variant |-> None]

OnlyParse == UNCHANGED <<normVars, sanVars, cropVars, pairVars, dlVars, pipeVars,
    batchVars, classVars, jsonVars,
    treeVars, workVars>>

InitParse ==
    /\ p_pc = "call" /\ text \in SeqsUpTo(Tokens, MaxTextLen)
    /\ out = None /\ det = None
    /\ IdleNorm /\ IdleSan /\ IdleCrop /\ IdlePair /\ IdleDl /\ IdlePipe
    /\ IdleBatch /\ IdleClass /\ IdleJson /\ IdleTree /\ IdleWork

\* step_detect_variant: the model's text goes through parse_json_or_extract.
StepDetectVariant ==
    /\ p_pc = "call"
    /\ out' = parse_json_or_extract(text)
    /\ p_pc' = "parsed"
    /\ UNCHANGED <<text, det>>
    /\ OnlyParse

DetectVariant ==
    /\ p_pc = "parsed"
    /\ det' = detect_variant_from_page1(out)
    /\ p_pc' = "detected"
    /\ UNCHANGED <<text, out>>
    /\ OnlyParse

NextParse == StepDetectVariant \/ DetectVariant

SpecParse == InitParse /\ [][NextParse]_vars

\* The first balanced {...} span of t: from the first "{" of the text up to
\* the "}" that closes it; <<>> when the text has no "{" or it is never closed.
BraceDepth(t, a, k) ==
    Cardinality({i \in a..k : t[i] = "{"}) - Cardinality({i \in a..k : t[i] = "}"})

FirstBalancedSpan(t) ==
    LET opens == {i \in 1..Len(t) : t[i] = "{"}
    IN  IF opens = {} THEN <<>>
        ELSE LET a == CHOOSE i \in opens : \A k \in opens : i <= k
                 ends == {k \in a..Len(t) : BraceDepth(t, a, k) = 0}
             IN  IF ends = {} THEN <<>>
                 ELSE SubSeq(t, a, CHOOSE i \in ends : \A k \in ends : i <= k)

\* C8: whenever the parsed answer of the variant call is not an object whose
\* variant is exactly "ua" or "ru", detect_variant_from_page1 returns the
\* variant "ua" and does not raise.
C8_DefaultsToUa ==
    (p_pc = "detected" /\ ~(isinstance_dict(out) /\ get_variant(out) \in {<<UA>>, <<RU>>}))
        => (~det.raised /\ det.variant = "ua")

\* C9: for every response text parse_json_or_extract returns a JSON object,
\* the parsed one or the tagged bad_json object, never another kind of value.
C9_ReturnsObject ==
    p_pc \in {"parsed", "detected"} => out.kind = "object"

\* C10: for a text that is not valid JSON as a whole, when its first balanced
\* {...} span parses, the result is the object of that span, whatever follows
\* the span; the bad_json object is returned only when that span does not parse.
C10_FirstBalancedSpan ==
    (p_pc \in {"parsed", "detected"} /\ json_loads(text).kind = "raise")
        => IF FirstBalancedSpan(text) # <<>>
              /\ json_loads(FirstBalancedSpan(text)).kind # "raise"
           THEN out = json_loads(FirstBalancedSpan(text))
           ELSE out = BadJson(text)

(***************************************************************************)
(* Text: characters are Unicode code points                                *)
(***************************************************************************)

\* str.upper() and str.lower() on one character: Latin a-z, Cyrillic а-я,
\* ѐ-џ (ё, є, і, ї among them) and ґ; every other character is kept.
upper_ch(c) ==
    IF c \in 97..122 \/ c \in 1072..1103 THEN c - 32
    ELSE IF c \in 1104..1119 THEN c - 80
    ELSE IF c = 1169 THEN 1168
    ELSE c

lower_ch(c) ==
    IF c \in 65..90 \/ c \in 1040..1071 THEN c + 32
    ELSE IF c \in 1024..1039 THEN c + 80
    ELSE IF c = 1168 THEN 1169
    ELSE c

upper(s) == [i \in 1..Len(s) |-> upper_ch(s[i])]
lower(s) == [i \in 1..Len(s) |-> lower_ch(s[i])]

\* str.strip(): leading and trailing white space (space, tab, newline) removed.
IsSpace(c) == c \in {32, 9, 10, 13}

strip(s) ==
    LET keep == {i \in 1..Len(s) : ~IsSpace(s[i])}
    IN  IF keep = {} THEN <<>>
        ELSE SubSeq(s, CHOOSE i \in keep : \A k \in keep : i <= k,
                       CHOOSE i \in keep : \A k \in keep : k <= i)

\* m in s (substring test).
Contains(s, m) ==
    \E i \in 1..(Len(s) - Len(m) + 1) : SubSeq(s, i, i + Len(m) - 1) = m

\* s.startswith(p)
startswith(s, p) == Len(p) <= Len(s) /\ SubSeq(s, 1, Len(p)) = p

(***************************************************************************)
(* Initials normalization                                                  *)
(***************************************************************************)

\* "АБВГДЕЁЖЗИЙКЛМНОПРСТУФХЦЧШЩЪЫЬЭЮЯІЇЄҐ"
CYR_LETTERS == (1040..1071) \cup {1025} \cup {1030, 1031, 1028, 1168}

\* str.maketrans({"І":"И","Ї":"И","Є":"Е","Ґ":"Г"})
UA2RU(c) ==
    CASE c = 1030 -> 1048
      [] c = 1031 -> 1048
      [] c = 1028 -> 1045
      [] c = 1168 -> 1043
      [] OTHER -> c

translate(s) == [i \in 1..Len(s) |-> UA2RU(s[i])]

\* "".join(ch for ch in s if ch in CYR_LETTERS)
RECURSIVE KeepCyr(_)
KeepCyr(s) ==
    IF s = <<>> THEN <<>>
    ELSE IF Head(s) \in CYR_LETTERS THEN <<Head(s)>> \o KeepCyr(Tail(s))
    ELSE KeepCyr(Tail(s))

\* A slip of normalize_initial_str: the table is applied before upper(), so a
\* lower-case variant letter passes it untouched.
normalize_initial_str_translate_first(s) ==
    LET t == KeepCyr(upper(translate(s)))
    IN  IF s = <<>> THEN <<>> ELSE IF t # <<>> THEN <<t[1]>> ELSE <<>>

normalize_initial_str(s) ==
    LET t == KeepCyr(translate(upper(s)))
    IN  IF s = <<>> THEN <<>> ELSE IF t # <<>> THEN <<t[1]>> ELSE <<>>

\* The initials value of the band answer: a dict with the two fields (a null
\* or missing field is <<>>, as `initials.get(...) or ""` makes it), or a
\* value that is no dict.
InitialsValue(isdict, name, patronymic) ==
    [isdict |-> isdict, name |-> name, patronymic |-> patronymic]

normalize_initials_dict(initials) ==
    IF ~initials.isdict THEN [name |-> <<>>, patronymic |-> <<>>]
    ELSE [name |-> normalize_initial_str(initials.name),
          patronymic |-> normalize_initial_str(initials.patronymic)]

\* Bound on the total length of the two raw initials strings.
MaxInitLen == 3

\* Characters of raw initials: І і ї Є ґ П п ё, Latin p and a full stop.
InitChars == {1030, 1110, 1111, 1028, 1169, 1055, 1087, 1105, 112, 46}

OnlyNorm == UNCHANGED <<parseVars, sanVars, cropVars, pairVars, dlVars, pipeVars,
    batchVars, classVars, jsonVars,
    treeVars, workVars>>

InitNorm ==
    /\ n_pc = "call"
    \* the two raw strings together hold at most MaxInitLen characters
    /\ \E n \in 0..MaxInitLen : \E la \in 0..n :
          \E d \in BOOLEAN, a \in [1..la -> InitChars], b \in [1..(n - la) -> InitChars] :
              n_in = InitialsValue(d, a, b)
    /\ n_out = None
    /\ IdleParse /\ IdleSan /\ IdleCrop /\ IdlePair /\ IdleDl /\ IdlePipe
    /\ IdleBatch /\ IdleClass /\ IdleJson /\ IdleTree /\ IdleWork

NormalizeInitialsDict ==
    /\ n_pc = "call"
    /\ n_out' = normalize_initials_dict(n_in)
    /\ n_pc' = "done"
    /\ UNCHANGED n_in
    /\ OnlyNorm

NextNorm == NormalizeInitialsDict

SpecNorm == InitNorm /\ [][NextNorm]_vars

\* The 33 letters of the base alphabet: А..Я and Ё.
BaseAlphabet == (1040..1071) \cup {1025}

EmptyOrBaseLetter(s) == s = <<>> \/ (Len(s) = 1 /\ s[1] \in BaseAlphabet)

\* What the table makes of a raw string: the four variant letters, upper-cased,
\* replaced by И, И, Е, Г.
FirstCyrMapped(s) ==
    LET idxs == {i \in 1..Len(s) : upper_ch(s[i]) \in CYR_LETTERS}
    IN  IF idxs = {} THEN <<>>
        ELSE LET c == upper_ch(s[CHOOSE i \in idxs : \A k \in idxs : i <= k])
             IN  <<CASE c \in {1030, 1031} -> 1048 [] c = 1028 -> 1045
                     [] c = 1168 -> 1043 [] OTHER -> c>>

\* C7: each field of a normalized initials pair is empty or exactly one letter
\* of the 33-letter base alphabet, never one of І Ї Є Ґ, and it is the first
\* Cyrillic letter of the raw string with І, Ї, Є, Ґ (either case) mapped to
\* И, И, Е, Г.
C7_InitialsInBaseAlphabet ==
    n_pc = "done" =>
        /\ EmptyOrBaseLetter(n_out.name) /\ EmptyOrBaseLetter(n_out.patronymic)
        /\ n_in.isdict => /\ n_out.name = FirstCyrMapped(n_in.name)
                          /\ n_out.patronymic = FirstCyrMapped(n_in.patronymic)

\* C7 witness: a raw name whose first Cyrillic letter is the lower-case
\* variant letter і was normalized to И.
C7_Witness ==
    /\ n_pc = "done" /\ n_in.isdict
    /\ n_in.name = <<46, 1110, 1087>> /\ n_out.name = <<1048>>

(***************************************************************************)
(* fix_nationality_sanity                                                  *)
(***************************************************************************)

\* "евр", "євр", "иуд"
JEWISH_MARKERS ==
    << <<1077, 1074, 1088>>, <<1108, 1074, 1088>>, <<1080, 1091, 1076>> >>

\* "укр", "укра", "рус", "рос", "бел", "поля", "арм", "тат", "груз", "нем",
\* "лат", "лит", "азер", "узб", "турк", "гре", "молд", "кара", "осет", "даг",
\* "чеч", "болг", "кирг", "каз", "евен", "бур", "морд", "мар"
NON_JEWISH_MARKERS ==
    << <<1091, 1082, 1088>>, <<1091, 1082, 1088, 1072>>, <<1088, 1091, 1089>>,
       <<1088, 1086, 1089>>, <<1073, 1077, 1083>>, <<1087, 1086, 1083, 1103>>,
       <<1072, 1088, 1084>>, <<1090, 1072, 1090>>, <<1075, 1088, 1091, 1079>>,
       <<1085, 1077, 1084>>, <<1083, 1072, 1090>>, <<1083, 1080, 1090>>,
       <<1072, 1079, 1077, 1088>>, <<1091, 1079, 1073>>, <<1090, 1091, 1088, 1082>>,
       <<1075, 1088, 1077>>, <<1084, 1086, 1083, 1076>>, <<1082, 1072, 1088, 1072>>,
       <<1086, 1089, 1077, 1090>>, <<1076, 1072, 1075>>, <<1095, 1077, 1095>>,
       <<1073, 1086, 1083, 1075>>, <<1082, 1080, 1088, 1075>>, <<1082, 1072, 1079>>,
       <<1077, 1074, 1077, 1085>>, <<1073, 1091, 1088>>, <<1084, 1086, 1088, 1076>>,
       <<1084, 1072, 1088>> >>

\* Confidence is held in tenths: 1.0 is ConfOne.  A JSON number-or-null is
\* <<v>> or <<>>.
ConfOne == 10

\* The nationality answer: a dict (is_jewish is "True", "False" or None for a
\* missing key; match is the string, <<>> for null, missing or ""; reason is
\* <<kind, marker>>), or a value that is no dict.
NatRecord(isdict, is_jewish, match, confidence) ==
    [isdict |-> isdict, is_jewish |-> is_jewish, match |-> match,
     confidence |-> confidence, reason |-> <<"absent", <<>>>>]

\* The first marker of the list ms that occurs in match (the for loop with its
\* early return); 0 when none does.
FirstMarker(ms, match) ==
    LET hits == {i \in 1..Len(ms) : Contains(match, ms[i])}
    IN  IF hits = {} THEN 0 ELSE CHOOSE i \in hits : \A k \in hits : i <= k

\* A slip of fix_nationality_sanity: the note of a record without marker is
\* written on every pass and tells the passes apart.
fix_nationality_sanity_renoting(n) ==
    LET match == strip(lower(n.match))
        j == FirstMarker(JEWISH_MARKERS, match)
        m == FirstMarker(NON_JEWISH_MARKERS, match)
    IN  IF ~n.isdict \/ match = <<>> THEN n
        ELSE IF j # 0 THEN
            [n EXCEPT !.is_jewish = "True", !.confidence = <<ConfOne>>,
                      !.reason = <<"forced_true_by_marker", JEWISH_MARKERS[j]>>]
        ELSE IF m # 0 THEN
            [n EXCEPT !.is_jewish = "False", !.confidence = <<ConfOne>>,
                      !.reason = <<"forced_false_by_marker", NON_JEWISH_MARKERS[m]>>]
        ELSE IF n.reason[1] = "absent" THEN [n EXCEPT !.reason = <<"as_reported", <<>>>>]
        ELSE [n EXCEPT !.reason = <<"as_reported_again", <<>>>>]

\* A slip of fix_nationality_sanity: the non-target markers are scanned first.
fix_nationality_sanity_non_target_first(n) ==
    LET match == strip(lower(n.match))
        j == FirstMarker(JEWISH_MARKERS, match)
        m == FirstMarker(NON_JEWISH_MARKERS, match)
    IN  IF ~n.isdict \/ match = <<>> THEN n
        ELSE IF m # 0 THEN
            [n EXCEPT !.is_jewish = "False", !.confidence = <<ConfOne>>,
                      !.reason = <<"forced_false_by_marker", NON_JEWISH_MARKERS[m]>>]
        ELSE IF j # 0 THEN
            [n EXCEPT !.is_jewish = "True", !.confidence = <<ConfOne>>,
                      !.reason = <<"forced_true_by_marker", JEWISH_MARKERS[j]>>]
        ELSE IF n.reason[1] = "absent" THEN [n EXCEPT !.reason = <<"as_reported", <<>>>>]
        ELSE n

fix_nationality_sanity(n) ==
    LET match == strip(lower(n.match))
        j == FirstMarker(JEWISH_MARKERS, match)
        m == FirstMarker(NON_JEWISH_MARKERS, match)
    IN  IF ~n.isdict \/ match = <<>> THEN n
        ELSE IF j # 0 THEN
            [n EXCEPT !.is_jewish = "True", !.confidence = <<ConfOne>>,
                      !.reason = <<"forced_true_by_marker", JEWISH_MARKERS[j]>>]
        ELSE IF m # 0 THEN
            [n EXCEPT !.is_jewish = "False", !.confidence = <<ConfOne>>,
                      !.reason = <<"forced_false_by_marker", NON_JEWISH_MARKERS[m]>>]
        ELSE IF n.reason[1] = "absent" THEN [n EXCEPT !.reason = <<"as_reported", <<>>>>]
        ELSE n

\* Bound on the length of the match string.
MaxMatchLen == 5

\* Characters of the match strings: г р е в, the capital Е and a space
\* (enough to write "евр", "гре" and the two overlapped, in either case).
MatchChars == {1075, 1088, 1077, 1074, 1045, 32}

\* The verdicts the model may report with a match.
Verdicts == {<<"True", <<ConfOne>>>>, <<"True", <<5>>>>, <<"False", <<ConfOne>>>>,
             <<"False", <<5>>>>, <<"False", <<0>>>>}

OnlySan == UNCHANGED <<parseVars, normVars, cropVars, pairVars, dlVars, pipeVars,
    batchVars, classVars, jsonVars,
    treeVars, workVars>>

InitSan ==
    /\ s_pc = "call"
    /\ nat \in {NatRecord(TRUE, v[1], m, v[2]) :
                    v \in Verdicts, m \in SeqsUpTo(MatchChars, MaxMatchLen)}
    /\ IdleParse /\ IdleNorm /\ IdleCrop /\ IdlePair /\ IdleDl /\ IdlePipe
    /\ IdleBatch /\ IdleClass /\ IdleJson /\ IdleTree /\ IdleWork

FixNationalitySanity ==
    /\ s_pc \in {"call", "once"}
    /\ nat' = fix_nationality_sanity(nat)
    /\ s_pc' = IF s_pc = "call" THEN "once" ELSE "twice"
    /\ OnlySan

NextSan == FixNationalitySanity

SpecSan == InitSan /\ [][NextSan]_vars

HasTarget(match) == \E i \in 1..Len(JEWISH_MARKERS) : Contains(lower(match), JEWISH_MARKERS[i])
HasNonTarget(match) ==
    \E i \in 1..Len(NON_JEWISH_MARKERS) : Contains(lower(match), NON_JEWISH_MARKERS[i])

\* C2: after the filter, a match that (lower-cased) contains a target marker
\* has is_jewish = true and confidence 1.0, whatever non-target markers it
\* also contains and whatever the model reported; a match with no target
\* marker and a non-target one has is_jewish = false and confidence 1.0.
C2_MarkerPrecedence ==
    s_pc \in {"once", "twice"} =>
        /\ HasTarget(nat.match) =>
              (nat.is_jewish = "True" /\ nat.confidence = <<ConfOne>>)
        /\ (~HasTarget(nat.match) /\ HasNonTarget(nat.match)) =>
              (nat.is_jewish = "False" /\ nat.confidence = <<ConfOne>>)

\* C2 witness: the match "грЕвр" (lower-cased it holds "гре" and "евр") was
\* forced to true by the marker "евр".
C2_Witness ==
    /\ s_pc = "once" /\ nat.match = <<1075, 1088, 1045, 1074, 1088>>
    /\ nat.is_jewish = "True" /\ nat.confidence = <<ConfOne>>
    /\ nat.reason = <<"forced_true_by_marker", JEWISH_MARKERS[1]>>

(***************************************************************************)
(* crop_percent                                                            *)
(***************************************************************************)

\* Fractions of the page (the rectangle and the pad) are held in hundredths:
\* 1.0 is Unit.  Products with the pixel size are exact.
Unit == 100

\* Bound on the width and the height of the image, in pixels.
MaxDim == 3

Max(a, b) == IF a >= b THEN a ELSE b
Min(a, b) == IF a <= b THEN a ELSE b

\* int(x): truncation toward zero of n / Unit.
int(n) == IF n >= 0 THEN n \div Unit ELSE -((-n) \div Unit)

\* crop_percent(im, box_pct, pad) for an image of w by h pixels: the pixel box.
crop_percent(w, h, box_pct, pad) ==
    LET x0 == IF pad # 0 THEN Max(0, box_pct[1] - pad) ELSE box_pct[1]
        y0 == IF pad # 0 THEN Max(0, box_pct[2] - pad) ELSE box_pct[2]
        x1 == IF pad # 0 THEN Min(Unit, box_pct[3] + pad) ELSE box_pct[3]
        y1 == IF pad # 0 THEN Min(Unit, box_pct[4] + pad) ELSE box_pct[4]
    IN  <<int(x0 * w), int(y0 * h), int(x1 * w), int(y1 * h)>>

\* The rectangle coordinates tried (two of them outside [0, 1], as an override
\* file may hold) and the pads tried (none, the default 0.02, and 0.49).
CropCoords == {-Unit, 0, 10, 45, 50, Unit, 2 * Unit}
CropPads == {0, 2, 49}

OnlyCrop == UNCHANGED <<parseVars, normVars, sanVars, pairVars, dlVars, pipeVars,
    batchVars, classVars, jsonVars,
    treeVars, workVars>>

InitCrop ==
    /\ c_pc = "call"
    /\ c_in \in [w : 1..MaxDim, h : 1..MaxDim,
                 box_pct : CropCoords \X CropCoords \X CropCoords \X CropCoords,
                 pad : CropPads]
    /\ c_box = None
    /\ IdleParse /\ IdleNorm /\ IdleSan /\ IdlePair /\ IdleDl /\ IdlePipe
    /\ IdleBatch /\ IdleClass /\ IdleJson /\ IdleTree /\ IdleWork

CropPercent ==
    /\ c_pc = "call"
    /\ c_box' = crop_percent(c_in.w, c_in.h, c_in.box_pct, c_in.pad)
    /\ c_pc' = "done"
    /\ UNCHANGED c_in
    /\ OnlyCrop

NextCrop == CropPercent

SpecCrop == InitCrop /\ [][NextCrop]_vars

\* 0 <= x0 < x1 <= 1 and 0 <= y0 < y1 <= 1
RectWithinUnit(b) ==
    /\ 0 <= b[1] /\ b[1] < b[3] /\ b[3] <= Unit
    /\ 0 <= b[2] /\ b[2] < b[4] /\ b[4] <= Unit

\* C6: for a rectangle within [0, 1] with x0 < x1 and y0 < y1 and a pad in
\* [0, 0.5), the pixel box has 0 <= X0 < X1 <= width and 0 <= Y0 < Y1 <= height.
C6_PositiveArea ==
    (c_pc = "done" /\ RectWithinUnit(c_in.box_pct) /\ c_in.pad < 50) =>
        /\ 0 <= c_box[1] /\ c_box[1] < c_box[3] /\ c_box[3] <= c_in.w
        /\ 0 <= c_box[2] /\ c_box[2] < c_box[4] /\ c_box[4] <= c_in.h

(***************************************************************************)
(* pair_by_nearest                                                         *)
(***************************************************************************)

\* a <= b on strings: Python compares code point by code point, a proper
\* prefix being the smaller.
RECURSIVE LexLeq(_, _)
LexLeq(a, b) ==
    IF a = <<>> THEN TRUE
    ELSE IF b = <<>> THEN FALSE
    ELSE IF Head(a) < Head(b) THEN TRUE
    ELSE IF Head(a) > Head(b) THEN FALSE
    ELSE LexLeq(Tail(a), Tail(b))

\* sorted(S): the names of S in ascending order.
RECURSIVE sorted(_)
sorted(S) ==
    IF S = {} THEN <<>>
    ELSE LET m == CHOOSE x \in S : \A y \in S : LexLeq(x, y)
         IN  <<m>> \o sorted(S \ {m})

\* [p2 for p2 in p2s if cond]: the subsequence of the names in keep.
RECURSIVE Filter(_, _)
Filter(s, keep) ==
    IF s = <<>> THEN <<>>
    ELSE IF Head(s) \in keep THEN <<Head(s)>> \o Filter(Tail(s), keep)
    ELSE Filter(Tail(s), keep)

SeqToSet(s) == {s[i] : i \in 1..Len(s)}

\* A slip of the choice: no fallback when no list-page follows the front-page.
choose_p2_no_fallback(p1, lists, used) ==
    LET candidates == Filter(lists, {p2 \in SeqToSet(lists) : p2 \notin used /\ LexLeq(p1, p2)})
    IN  IF candidates # <<>> THEN candidates[1] ELSE <<>>

\* The list-page chosen for front-page p1 (one pass of the loop body); <<>>
\* when none is chosen (`if not chosen` / `if chosen`).
choose_p2(p1, lists, used) ==
    LET candidates == Filter(lists, {p2 \in SeqToSet(lists) : p2 \notin used /\ LexLeq(p1, p2)})
        fallback   == Filter(lists, {p2 \in SeqToSet(lists) : p2 \notin used})
        chosen     == IF candidates # <<>> THEN candidates[1] ELSE <<>>
    IN  IF chosen # <<>> THEN chosen
        ELSE IF fallback # <<>> THEN fallback[1] ELSE <<>>

\* Bound on the number of front-pages and on the number of list-pages.
MaxFiles == 3

\* The file names tried: "a", "ab", "b", "c", "d", "e".
PairNames == {<<97>>, <<97, 98>>, <<98>>, <<99>>, <<100>>, <<101>>}

NameSets == {S \in SUBSET PairNames : Cardinality(S) <= MaxFiles}

OnlyPair == UNCHANGED <<parseVars, normVars, sanVars, cropVars, dlVars, pipeVars,
    batchVars, classVars, jsonVars,
    treeVars, workVars>>

InitPair ==
    /\ pr_pc = "call"
    /\ classified \in [page1 : NameSets, page2 : NameSets]
    /\ p1s = <<>> /\ p2s = <<>> /\ used_p2 = {} /\ pairs = <<>> /\ pr_i = 0
    /\ IdleParse /\ IdleNorm /\ IdleSan /\ IdleCrop /\ IdleDl /\ IdlePipe
    /\ IdleBatch /\ IdleClass /\ IdleJson /\ IdleTree /\ IdleWork

\* Lines 706-709: both lists sorted, nothing used, no pair yet.
PairStart ==
    /\ pr_pc = "call"
    /\ p1s' = sorted(classified.page1)
    /\ p2s' = sorted(classified.page2)
    /\ used_p2' = {} /\ pairs' = <<>> /\ pr_i' = 1
    /\ pr_pc' = "loop"
    /\ UNCHANGED classified
    /\ OnlyPair

\* One pass of `for p1 in p1s`.
PairStep ==
    /\ pr_pc = "loop" /\ pr_i <= Len(p1s)
    /\ LET chosen == choose_p2(p1s[pr_i], p2s, used_p2)
       IN  IF chosen # <<>>
           THEN /\ used_p2' = used_p2 \cup {chosen}
                /\ pairs' = Append(pairs, <<p1s[pr_i], chosen>>)
           ELSE UNCHANGED <<used_p2, pairs>>
    /\ pr_i' = pr_i + 1
    /\ UNCHANGED <<pr_pc, classified, p1s, p2s>>
    /\ OnlyPair

PairReturn ==
    /\ pr_pc = "loop" /\ pr_i > Len(p1s)
    /\ pr_pc' = "done"
    /\ UNCHANGED <<classified, p1s, p2s, used_p2, pairs, pr_i>>
    /\ OnlyPair

NextPair == PairStart \/ PairStep \/ PairReturn

SpecPair == InitPair /\ [][NextPair]_vars

\* The least name of a non-empty set.
LeastName(S) == CHOOSE x \in S : \A y \in S : LexLeq(x, y)

\* The list-pages of the pairs before the k-th.
UsedBefore(k) == {pairs[j][2] : j \in 1..(k - 1)}

\* C4: the fronts are taken in sorted order; the k-th pair holds the k-th
\* front-page and the least list-page not yet used whose name is >= it, or the
\* least list-page not yet used when there is none; a front-page is dropped
\* only when no unused list-page remains; no list-page is in two pairs.  Fronts
\* [a, c] with lists [b, d] give [(a,b),(c,d)], fronts [b] with lists [a]
\* give [(b,a)].
C4_NearestFollowing ==
    pr_pc = "done" =>
        LET F == classified.page1
            L == classified.page2
            n == Min(Cardinality(F), Cardinality(L))
        IN  /\ Len(pairs) = n
            /\ \A k \in 1..n :
                  LET unused == L \ UsedBefore(k)
                      later  == {x \in unused : LexLeq(pairs[k][1], x)}
                  IN  /\ pairs[k][1] = sorted(F)[k]
                      /\ pairs[k][2] = IF later # {} THEN LeastName(later)
                                                     ELSE LeastName(unused)
            /\ \A j, k \in 1..n : j # k => pairs[j][2] # pairs[k][2]
            /\ (F = {<<97>>, <<99>>} /\ L = {<<98>>, <<100>>})
                  => pairs = << <<(<<97>>), (<<98>>)>>, <<(<<99>>), (<<100>>)>> >>
            /\ (F = {<<98>>} /\ L = {<<97>>}) => pairs = << <<(<<98>>), (<<97>>)>> >>

\* C4 witness: fronts [b, c, e] with lists [a, ab, d]: b takes d, then c and e
\* fall back to a and ab.
C4_Witness ==
    /\ pr_pc = "done"
    /\ classified.page1 = {<<98>>, <<99>>, <<101>>}
    /\ classified.page2 = {<<97>>, <<97, 98>>, <<100>>}
    /\ pairs = << <<(<<98>>), (<<100>>)>>, <<(<<99>>), (<<97>>)>>, <<(<<101>>), (<<97, 98>>)>> >>

(***************************************************************************)
(* download_image_range                                                    *)
(***************************************************************************)

\* Bounds: the range is [1, MaxIdx], a body has MaxBody chunks, retries is
\* at most MaxRetries.
MaxIdx == 2
MaxBody == 2
MaxRetries == 1

\* The image the server holds for index i: a non-empty body, one number per
\* chunk, different for every index and position.
Body(i) == [k \in 1..MaxBody |-> 10 * i + k]

\* A file: absent, or present with its content.
Absent == [exists |-> FALSE, data |-> <<>>]
File(data) == [exists |-> TRUE, data |-> data]

\* os.path.getsize
getsize(f) == Len(f.data)

Range == 1..job.end

OnlyDl == UNCHANGED <<parseVars, normVars, sanVars, cropVars, pairVars, pipeVars,
    batchVars, classVars, jsonVars,
    treeVars, workVars>>

\* Locals of one attempt, at rest between attempts.
AtRest == /\ existing' = 0 /\ mode' = None /\ rangeHdr' = FALSE
          /\ resp' = <<>> /\ sent' = 0

\* First invocation: an empty destination directory.
InitDl ==
    /\ d_pc = "index" /\ run = 1 /\ idx = 1 /\ attempt = 0
    /\ job \in [end : {MaxIdx}, retries : -1..MaxRetries, resume : BOOLEAN]
    /\ existing = 0 /\ mode = None /\ rangeHdr = FALSE /\ resp = <<>> /\ sent = 0
    /\ final = [i \in 1..MaxIdx |-> Absent]
    /\ part = [i \in 1..MaxIdx |-> Absent]
    /\ downloaded = 0 /\ skipped = 0 /\ errors = <<>> /\ slept = <<>>
    /\ killedAt = {} /\ status = 0
    /\ IdleParse /\ IdleNorm /\ IdleSan /\ IdleCrop /\ IdlePair /\ IdlePipe
    /\ IdleBatch /\ IdleClass /\ IdleJson /\ IdleTree /\ IdleWork

\* A slip of the delay: none is taken.
no_sleep(log, i) == log

\* time.sleep(random.uniform(sleep_min, sleep_max)) after index i: the delay
\* is entered in the log of delays.
time_sleep(log, i) == Append(log, i)

\* Lines 162-166: a completed, non-empty file of the target name is skipped;
\* the delay is taken and the loop continues with the next index.
SkipExisting ==
    /\ d_pc = "index" /\ idx <= job.end
    /\ final[idx].exists /\ getsize(final[idx]) > 0
    /\ skipped' = skipped + 1
    /\ slept' = time_sleep(slept, idx)
    /\ idx' = idx + 1
    /\ UNCHANGED <<status, d_pc, job, run, attempt, existing, mode, rangeHdr, resp, sent,
                   final, part, downloaded, errors, killedAt>>
    /\ OnlyDl

\* Line 168: attempt = 0 before the while loop.
BeginItem ==
    /\ d_pc = "index" /\ idx <= job.end
    /\ ~(final[idx].exists /\ getsize(final[idx]) > 0)
    /\ attempt' = 0
    /\ d_pc' = "while"
    /\ UNCHANGED <<status, job, run, idx, existing, mode, rangeHdr, resp, sent,
                   final, part, downloaded, skipped, errors, slept, killedAt>>
    /\ OnlyDl

\* Lines 169-181: one more attempt; the Range header and the append mode are
\* chosen when resume is on and the sidecar holds bytes.
BeginAttempt ==
    /\ d_pc = "while" /\ attempt <= job.retries
    /\ attempt' = attempt + 1
    /\ status' = 0
    /\ LET ex == IF job.resume /\ part[idx].exists THEN getsize(part[idx]) ELSE 0
       IN  /\ existing' = ex
           /\ rangeHdr' = (job.resume /\ ex > 0)
           /\ mode' = IF job.resume /\ ex > 0 THEN "ab" ELSE "wb"
    /\ d_pc' = "request"
    /\ UNCHANGED <<job, run, idx, resp, sent, final, part, downloaded, skipped,
                   errors, slept, killedAt>>
    /\ OnlyDl

\* The while condition fails: the loop ends without a break.
AttemptsExhausted ==
    /\ d_pc = "while" /\ attempt > job.retries
    /\ d_pc' = "sleep"
    /\ UNCHANGED <<status, job, run, idx, attempt, existing, mode, rangeHdr, resp, sent,
                   final, part, downloaded, skipped, errors, slept, killedAt>>
    /\ OnlyDl

\* A slip of open: the bytes of the file are kept in either mode.
open_keeping_bytes(f, m) == File(f.data)

\* open(part_path, m): "wb" truncates or creates, "ab" creates when absent.
open(f, m) == IF m = "wb" THEN File(<<>>) ELSE File(f.data)

\* A slip of the except clause: every failed attempt is recorded.
Except_recording_each ==
    /\ errors' = Append(errors, idx)
    /\ d_pc' = "while"
    /\ AtRest

\* Lines 213-218: the except clause; after the last attempt the index is
\* recorded, otherwise the loop backs off and goes on.
Except ==
    /\ errors' = IF attempt > job.retries THEN Append(errors, idx) ELSE errors
    /\ d_pc' = "while"
    /\ AtRest

\* The server fails in the first invocation only; only the first invocation
\* is interrupted.
ServerMayFail == run = 1

\* Line 184 with an exception: no connection, or (line 205) an error status.
RequestFails ==
    /\ d_pc \in {"request", "request2"} /\ ServerMayFail
    /\ Except
    /\ UNCHANGED <<status, job, run, idx, attempt, final, part, downloaded, skipped,
                   slept, killedAt>>
    /\ OnlyDl

\* Lines 201-206: status 200 with the whole body; a Range header that was
\* sent is ignored by the server and the sidecar is written afresh.
Respond200 ==
    /\ d_pc = "request"
    /\ existing' = IF rangeHdr THEN 0 ELSE existing
    /\ mode' = IF rangeHdr THEN "wb" ELSE mode
    /\ part' = [part EXCEPT ![idx] = open(part[idx], mode')]
    /\ resp' = Body(idx) /\ sent' = 0
    /\ status' = 200
    /\ d_pc' = "stream"
    /\ UNCHANGED <<job, run, idx, attempt, rangeHdr, final, downloaded, skipped,
                   errors, slept, killedAt>>
    /\ OnlyDl

\* Status 206 to a Range request: the bytes from offset `existing` on.
Respond206 ==
    /\ d_pc = "request" /\ rangeHdr /\ existing < Len(Body(idx))
    /\ part' = [part EXCEPT ![idx] = open(part[idx], mode)]
    /\ resp' = SubSeq(Body(idx), existing + 1, Len(Body(idx))) /\ sent' = 0
    /\ status' = 206
    /\ d_pc' = "stream"
    /\ UNCHANGED <<job, run, idx, attempt, existing, mode, rangeHdr, final,
                   downloaded, skipped, errors, slept, killedAt>>
    /\ OnlyDl

\* Lines 185-190: status 416 to a Range request; the header is dropped and a
\* second request is made.
Respond416 ==
    /\ d_pc = "request" /\ rangeHdr
    /\ rangeHdr' = FALSE /\ existing' = 0 /\ mode' = "wb"
    /\ status' = 416
    /\ d_pc' = "request2"
    /\ UNCHANGED <<job, run, idx, attempt, resp, sent, final, part, downloaded,
                   skipped, errors, slept, killedAt>>
    /\ OnlyDl

\* Lines 190-192: the second request answers 200 with the whole body.
Respond200Again ==
    /\ d_pc = "request2"
    /\ part' = [part EXCEPT ![idx] = open(part[idx], mode)]
    /\ resp' = Body(idx) /\ sent' = 0
    /\ d_pc' = "stream"
    /\ UNCHANGED <<status, job, run, idx, attempt, existing, mode, rangeHdr, final,
                   downloaded, skipped, errors, slept, killedAt>>
    /\ OnlyDl

\* Lines 193-195 / 207-209: one chunk is written to the sidecar.
WriteChunk ==
    /\ d_pc = "stream" /\ sent < Len(resp)
    /\ part' = [part EXCEPT ![idx] = File(Append(part[idx].data, resp[sent + 1]))]
    /\ sent' = sent + 1
    /\ UNCHANGED <<status, d_pc, job, run, idx, attempt, existing, mode, rangeHdr, resp,
                   final, downloaded, skipped, errors, slept, killedAt>>
    /\ OnlyDl

\* The connection breaks while the body is streamed.
StreamFails ==
    /\ d_pc = "stream" /\ sent < Len(resp) /\ ServerMayFail
    /\ Except
    /\ UNCHANGED <<status, job, run, idx, attempt, final, part, downloaded, skipped,
                   slept, killedAt>>
    /\ OnlyDl

\* A slip of the end test: one chunk is taken for the whole body.
stream_started == sent >= 1

\* iter_content is exhausted (lines 193, 207): the body was read to its end.
stream_ended == sent = Len(resp)

\* A slip of the promotion: the sidecar is copied and left in place.
promote_keeping_sidecar(fs, ps, i) == <<[fs EXCEPT ![i] = ps[i]], ps>>

\* os.replace(part_path, final_path): the final files and the sidecars after it.
promote(fs, ps, i) == <<[fs EXCEPT ![i] = ps[i]], [ps EXCEPT ![i] = Absent]>>

\* Lines 196-198 / 210-212: the body ended; the sidecar is renamed to the
\* final name, the index counted, and the loop left.
Promote ==
    /\ d_pc = "stream" /\ stream_ended
    /\ final' = promote(final, part, idx)[1]
    /\ part' = promote(final, part, idx)[2]
    /\ downloaded' = downloaded + 1
    /\ d_pc' = "sleep"
    /\ AtRest
    /\ UNCHANGED <<status, job, run, idx, attempt, skipped, errors, slept, killedAt>>
    /\ OnlyDl

\* Line 221: the delay after an item, then the next index.
Sleep ==
    /\ d_pc = "sleep"
    /\ slept' = time_sleep(slept, idx)
    /\ idx' = idx + 1
    /\ attempt' = 0 /\ status' = 0
    /\ d_pc' = "index"
    /\ UNCHANGED <<job, run, existing, mode, rangeHdr, resp, sent, final, part,
                   downloaded, skipped, errors, killedAt>>
    /\ OnlyDl

\* Line 223.
Return ==
    /\ d_pc = "index" /\ idx > job.end
    /\ d_pc' = "returned"
    /\ UNCHANGED <<status, job, run, idx, attempt, existing, mode, rangeHdr, resp, sent,
                   final, part, downloaded, skipped, errors, slept, killedAt>>
    /\ OnlyDl

Completed == {i \in 1..MaxIdx : final[i].exists /\ getsize(final[i]) > 0}

\* The process is interrupted during the first invocation; the files stay as
\* they are.
Interrupt ==
    /\ run = 1 /\ d_pc \notin {"returned", "killed"}
    /\ d_pc' = "killed"
    /\ killedAt' = Completed
    /\ UNCHANGED <<status, job, run, idx, attempt, existing, mode, rangeHdr, resp, sent,
                   final, part, downloaded, skipped, errors, slept>>
    /\ OnlyDl

\* download_image_range is invoked again with the same parameters.
InvokeAgain ==
    /\ d_pc = "killed"
    /\ run' = 2 /\ idx' = 1 /\ attempt' = 0 /\ status' = 0
    /\ downloaded' = 0 /\ skipped' = 0 /\ errors' = <<>> /\ slept' = <<>>
    /\ d_pc' = "index"
    /\ AtRest
    /\ UNCHANGED <<job, final, part, killedAt>>
    /\ OnlyDl

NextDl ==
    \/ SkipExisting \/ BeginItem \/ BeginAttempt \/ AttemptsExhausted
    \/ RequestFails \/ Respond200 \/ Respond206 \/ Respond416 \/ Respond200Again
    \/ WriteChunk \/ StreamFails \/ Promote \/ Sleep \/ Return
    \/ Interrupt \/ InvokeAgain

SpecDl == InitDl /\ [][NextDl]_vars

Null == <<-1>>

\* A truthy JSON value that is no string (a number, a list, an object) where
\* the code expects a string, and one that is no object (a string, a list)
\* where it expects an object.
NonStr == <<-2>>
NonObject == <<-3>>

isinstance_str(v) == v \notin {Null, NonStr, NonObject}

\* `v or ""` for a string-or-null value.
or_empty(v) == IF v = Null THEN <<>> ELSE v

\* The characters of r"[А-ЯЁІЇЄҐа-яёіїєґ\-]".
IsFioChar(c) ==
    \/ c \in 1040..1103
    \/ c \in {1025, 1030, 1031, 1028, 1168, 1105, 1110, 1111, 1108, 1169}
    \/ c = 45

\* re.findall(r"[...]+", raw): the maximal runs of those characters; cur is
\* the run being read.
RECURSIVE findall(_, _)
findall(s, cur) ==
    LET flush == IF cur = <<>> THEN <<>> ELSE <<cur>>
    IN  IF s = <<>> THEN flush
        ELSE IF IsFioChar(Head(s)) THEN findall(Tail(s), Append(cur, Head(s)))
        ELSE flush \o findall(Tail(s), <<>>)

\* split_fio_left(raw): the first three tokens, <<>> for None.
split_fio_left(raw) ==
    LET toks == findall(raw, <<>>)
    IN  IF raw = <<>> \/ ~isinstance_str(raw) THEN <<>>
        ELSE IF Len(toks) >= 3 THEN SubSeq(toks, 1, 3)
        ELSE <<>>

initials_of_two(name, patr) == <<normalize_initial_str(name), normalize_initial_str(patr)>>

\* float(nationality.get("confidence") or 0.0), in tenths.
conf_or_zero(c) == IF c = <<>> THEN 0 ELSE c[1]

\* A slip of the predicate: confidence 1.0 still counts as uncertain.
manual_review_le(n) ==
    n.isdict /\ n.is_jewish = "False" /\ conf_or_zero(n.confidence) <= ConfOne

\* Lines 523-527.
manual_review(n) ==
    n.isdict /\ n.is_jewish = "False" /\ conf_or_zero(n.confidence) < ConfOne

\* The band answer and the FIO answer.  checks holds what the reconciliation
\* writes: resolution is "absent" until then.
BandAnswer(isdict, surname, initials) ==
    [isdict |-> isdict, surname |-> surname, initials |-> initials]

NoChecks == [initials_provided |-> <<>>, initials_left_raw |-> <<>>, resolution |-> "absent"]

FioAnswer(isdict, surname, name, patronymic, fio_left) ==
    [isdict |-> isdict, surname |-> surname, name |-> name, patronymic |-> patronymic,
     fio_left |-> fio_left, checks |-> NoChecks]

\* Lines 541-544: the enforce-initials post-check.
enforce(f, on, init_patr) ==
    IF on /\ f.isdict /\ isinstance_str(f.patronymic) /\ init_patr # <<>>
       /\ ~startswith(upper(f.patronymic), init_patr)
    THEN [f EXCEPT !.patronymic = Null]
    ELSE f

\* A slip of the conflict test: only the name slot is compared.
has_conflict_name_only(provided, left) ==
    provided[1] # <<>> /\ left[1] # <<>> /\ provided[1] # left[1]

\* Line 283 raises: nat.get("match") is truthy and has no lower().
sanity_raises(n) == n.isdict /\ n.match = NonStr

\* The reconciliation raises: fio.get("raw") is truthy and has no get()
\* (line 548; fio_left is then NonObject), or the text gives three tokens and
\* fio["checks"] exists and is no dict (line 557).
reconcile_raises(f) ==
    /\ f.isdict
    /\ \/ f.fio_left = NonObject
       \/ /\ split_fio_left(or_empty(f.fio_left)) # <<>>
          /\ f.checks.resolution = "not_an_object"

\* Lines 560-563, on the provided and the left-raw initials (<<name, patronymic>>).
has_conflict(provided, left) ==
    \/ (provided[1] # <<>> /\ left[1] # <<>> /\ provided[1] # left[1])
    \/ (provided[2] # <<>> /\ left[2] # <<>> /\ provided[2] # left[2])

\* Lines 547-570: the FIO record after the reconciliation.
reconcile(f, provided) ==
    LET p    == split_fio_left(or_empty(f.fio_left))
        left == initials_of_two(p[2], p[3])
    IN  IF ~f.isdict \/ p = <<>> THEN f
        ELSE IF has_conflict(provided, left)
        THEN [f EXCEPT !.surname = p[1], !.name = p[2],
                       !.patronymic = IF p[3] # <<>> THEN p[3] ELSE f.patronymic,
                       !.checks = [initials_provided |-> provided,
                                   initials_left_raw |-> left,
                                   resolution |-> "prefer_left_fio_due_to_initials_conflict"]]
        ELSE [f EXCEPT !.checks = [initials_provided |-> provided,
                                   initials_left_raw |-> left,
                                   resolution |-> "ok_or_no_conflict"]]

\* The answers the model gives in a run.
\* variant call: {"variant":"ru"}, {"variant":"ua"}, prose, a list.
VariantTexts == {<<"{", KV, RU, "}">>, <<"{", KV, UA, "}">>, <<"x">>, <<"[", "]">>}

\* nationality call: no dict, or a dict with is_jewish true, false or missing,
\* confidence 0, 0.5, 1.0 or missing, and match "", "евр", "гре" or "р"; or
\* a dict whose match is a number.
NatAnswers ==
    {NatRecord(FALSE, None, <<>>, <<>>)} \cup
    {NatRecord(TRUE, j, m, c) :
        j \in {"True", "False", None},
        m \in {<<>>, <<1077, 1074, 1088>>, <<1075, 1088, 1077>>, <<1088>>},
        c \in {<<>>, <<0>>, <<5>>, <<ConfOne>>}} \cup
    {NatRecord(TRUE, "False", NonStr, <<5>>)}

\* band call: no dict, or surname "Ив" with initials name "", "П" or "М" and
\* patronymic "", "С" or "с.".
BandAnswers ==
    {BandAnswer(FALSE, Null, InitialsValue(FALSE, <<>>, <<>>))} \cup
    {BandAnswer(TRUE, <<1048, 1074>>, InitialsValue(TRUE, n, p)) :
        n \in {<<>>, <<1055>>, <<1052>>}, p \in {<<>>, <<1057>>, <<1089, 46>>}}

\* FIO call: no dict, or surname "Ива", name "Пет", patronymic "Сем", "Мих" or
\* null, and the raw text of the front page; or a dict whose raw is a string,
\* or whose checks is a string.
RawLefts ==
    { Null, <<>>,
      <<1048, 1074, 32, 1055, 1077, 1090, 32, 1057, 1077, 1084>>,   \* "Ив Пет Сем"
      <<1048, 1074, 32, 1052, 1080, 1093, 32, 1057, 1077, 1084>>,   \* "Ив Мих Сем"
      <<1048, 1074, 32, 1055, 1077, 1090, 32, 1052, 1080, 1093>>,   \* "Ив Пет Мих"
      <<1048, 1074, 32, 1055, 1077, 1090>>,                         \* "Ив Пет"
      <<1048, 1074, 32, 45, 32, 1057, 1077, 1084>> }                \* "Ив - Сем"

FioAnswers ==
    {FioAnswer(FALSE, Null, Null, Null, Null)} \cup
    {FioAnswer(TRUE, <<1048, 1074, 1072>>, <<1055, 1077, 1090>>, p, r) :
        p \in {<<1057, 1077, 1084>>, <<1052, 1080, 1093>>, Null}, r \in RawLefts} \cup
    {FioAnswer(TRUE, <<1048, 1074, 1072>>, <<1055, 1077, 1090>>, <<1057, 1077, 1084>>, NonObject)} \cup
    {[FioAnswer(TRUE, <<1048, 1074, 1072>>, <<1055, 1077, 1090>>, <<1057, 1077, 1084>>, r)
         EXCEPT !.checks.resolution = "not_an_object"] :
        r \in {<<1048, 1074, 32, 1055, 1077, 1090, 32, 1057, 1077, 1084>>,
               <<1048, 1074, 32, 1055, 1077, 1090>>}}

\* An entry of the log of steps: a model call, the sanity filter, the
\* evaluation of the review flag, the reconciliation.
Step(op, hints) == [op |-> op, hints |-> hints]

\* A slip of the hints: the initials are passed as the band call gave them.
fio_hints_raw(surname, inits) ==
    <<surname, right_raw.initials.name, right_raw.initials.patronymic>>

\* Line 538: step_fio_left(fio_img, r_surname, init_name, init_patr).
fio_hints(surname, inits) == <<surname, inits.name, inits.patronymic>>

\* The model call that is issued at a position of the run.
next_call(pc) ==
    CASE pc = "start" -> "call_variant"
      [] pc = "regions_cropped" -> "call_nationality"
      [] pc = "nationality_read" -> "call_band"
      [] pc = "bandread" -> "call_fio"

OnlyPipe == UNCHANGED <<parseVars, normVars, sanVars, cropVars, pairVars, dlVars,
    batchVars, classVars, jsonVars,
    treeVars, workVars>>

InitPipe ==
    /\ pl_pc = "start" /\ enforce_initials \in BOOLEAN
    /\ variant = None /\ nationality = None /\ needs_manual_review = FALSE
    /\ right_raw = None /\ initials_norm = None /\ r_surname = None
    /\ fio_ret = None /\ fio = None /\ conflict = FALSE /\ parsed = None
    /\ result = None /\ review = None /\ steps = <<>>
    /\ IdleParse /\ IdleNorm /\ IdleSan /\ IdleCrop /\ IdlePair /\ IdleDl
    /\ IdleBatch /\ IdleClass /\ IdleJson /\ IdleTree /\ IdleWork

\* Lines 499-500: the variant call; a raising detection ends the run.
PipeDetectVariant ==
    /\ pl_pc = "start"
    /\ steps' = Append(steps, Step("call_variant", <<>>))
    /\ \E t \in VariantTexts :
          LET d == detect_variant_from_page1(parse_json_or_extract(t))
          IN  IF d.raised
              THEN pl_pc' = "error" /\ UNCHANGED variant
              ELSE pl_pc' = "variant_detected" /\ variant' = d.variant
    /\ UNCHANGED <<review, enforce_initials, nationality, needs_manual_review, right_raw,
                   initials_norm, r_surname, fio_ret, fio, conflict, parsed, result>>
    /\ OnlyPipe

\* Lines 501-516: the three regions are cropped and saved.
PipeCrop ==
    /\ pl_pc = "variant_detected"
    /\ pl_pc' = "regions_cropped"
    /\ UNCHANGED <<steps, review, enforce_initials, variant, nationality, needs_manual_review,
                   right_raw, initials_norm, r_surname, fio_ret, fio, conflict,
                   parsed, result>>
    /\ OnlyPipe

\* Line 519: the nationality call.
PipeNationality ==
    /\ pl_pc = "regions_cropped"
    /\ steps' = Append(steps, Step("call_nationality", <<>>))
    /\ nationality' \in NatAnswers
    /\ pl_pc' = "nationality_called"
    /\ UNCHANGED <<review, enforce_initials, variant, needs_manual_review, right_raw,
                   initials_norm, r_surname, fio_ret, fio, conflict, parsed, result>>
    /\ OnlyPipe

\* A slip of the run: the sanity filter is left out.
PipeSanity_skipped ==
    /\ pl_pc = "nationality_called"
    /\ pl_pc' = "nationality_filtered"
    /\ UNCHANGED <<steps, review, enforce_initials, variant, nationality,
                   needs_manual_review, right_raw, initials_norm, r_surname, fio_ret,
                   fio, conflict, parsed, result>>
    /\ OnlyPipe

\* Line 520: SanityFilter.
PipeSanity ==
    /\ pl_pc = "nationality_called"
    /\ steps' = Append(steps, Step("sanity", <<>>))
    /\ IF sanity_raises(nationality)
       THEN pl_pc' = "raised_in_sanity" /\ UNCHANGED nationality
       ELSE /\ nationality' = fix_nationality_sanity(nationality)
            /\ pl_pc' = "nationality_filtered"
    /\ UNCHANGED <<review, enforce_initials, variant, needs_manual_review, right_raw,
                   initials_norm, r_surname, fio_ret, fio, conflict, parsed, result>>
    /\ OnlyPipe

\* Lines 523-527: the manual-review flag.
PipeReviewFlag ==
    /\ pl_pc = "nationality_filtered"
    /\ steps' = Append(steps, Step("flag", <<>>))
    /\ needs_manual_review' = manual_review(nationality)
    /\ pl_pc' = "nationality_read"
    /\ UNCHANGED <<review, enforce_initials, variant, nationality, right_raw,
                   initials_norm, r_surname, fio_ret, fio, conflict, parsed, result>>
    /\ OnlyPipe

\* Lines 530-535: the band call; surname and initials are normalized.
PipeBand ==
    /\ pl_pc = "nationality_read"
    /\ steps' = Append(steps, Step("call_band", <<>>))
    /\ \E b \in BandAnswers :
          /\ right_raw' = b
          /\ r_surname' = IF b.isdict THEN strip(or_empty(b.surname)) ELSE <<>>
          /\ initials_norm' = normalize_initials_dict(b.initials)
    /\ pl_pc' = "bandread"
    /\ UNCHANGED <<review, enforce_initials, variant, nationality, needs_manual_review,
                   fio_ret, fio, conflict, parsed, result>>
    /\ OnlyPipe

\* Line 538: the FIO call.
PipeFio ==
    /\ pl_pc = "bandread"
    /\ steps' = Append(steps, Step("call_fio", fio_hints(r_surname, initials_norm)))
    /\ \E f \in FioAnswers : fio_ret' = f /\ fio' = f
    /\ pl_pc' = "fio_called"
    /\ UNCHANGED <<review, enforce_initials, variant, nationality, needs_manual_review,
                   right_raw, initials_norm, r_surname, conflict, parsed, result>>
    /\ OnlyPipe

\* Lines 541-544.
PipeEnforce ==
    /\ pl_pc = "fio_called"
    /\ fio' = enforce(fio, enforce_initials, initials_norm.patronymic)
    /\ pl_pc' = "fio_read"
    /\ UNCHANGED <<steps, review, enforce_initials, variant, nationality, needs_manual_review,
                   right_raw, initials_norm, r_surname, fio_ret, conflict, parsed,
                   result>>
    /\ OnlyPipe

\* Lines 547-570.
PipeReconcile ==
    /\ pl_pc = "fio_read"
    /\ steps' = Append(steps, Step("reconcile", <<>>))
    /\ IF reconcile_raises(fio)
       THEN pl_pc' = "raised_in_reconcile" /\ UNCHANGED <<parsed, conflict, fio>>
       ELSE LET provided == <<initials_norm.name, initials_norm.patronymic>>
                p == IF fio.isdict THEN split_fio_left(or_empty(fio.fio_left)) ELSE <<>>
            IN  /\ parsed' = p
                /\ conflict' = (p # <<>> /\ has_conflict(provided, initials_of_two(p[2], p[3])))
                /\ fio' = reconcile(fio, provided)
                /\ pl_pc' = "reconciled"
    /\ UNCHANGED <<review, enforce_initials, variant, nationality, needs_manual_review,
                   right_raw, initials_norm, r_surname, fio_ret, result>>
    /\ OnlyPipe

\* The five files the routing step copies: the two source images and the
\* three crops (line 597).
ReviewSources == 1..5

\* The holding directory before the routing step: not created, nothing copied.
NoReview == [dir |-> FALSE, i |-> 0, copied |-> {}, readme |-> FALSE]

\* Lines 573-591: the result is assembled.
PipeAssemble ==
    /\ pl_pc = "reconciled"
    /\ result' = [variant |-> variant, nationality |-> nationality, fio |-> fio,
                  needs_manual_review |-> needs_manual_review]
    /\ review' = NoReview
    /\ pl_pc' = "assembled"
    /\ UNCHANGED <<steps, enforce_initials, variant, nationality, needs_manual_review,
                   right_raw, initials_norm, r_surname, fio_ret, fio, conflict,
                   parsed>>
    /\ OnlyPipe

\* Lines 594-596: a flagged pair gets the holding directory; ensure_dir is
\* called outside any try, so a failing os.makedirs ends the run.
PipeEnsureReviewDir ==
    /\ pl_pc = "assembled" /\ needs_manual_review
    /\ \E ok \in BOOLEAN :
          IF ok THEN review' = [review EXCEPT !.dir = TRUE] /\ pl_pc' = "copying"
          ELSE pl_pc' = "raised_in_routing" /\ UNCHANGED review
    /\ UNCHANGED <<steps, enforce_initials, variant, nationality, needs_manual_review,
                   right_raw, initials_norm, r_surname, fio_ret, fio, conflict,
                   parsed, result>>
    /\ OnlyPipe

\* Lines 597-602: one file of the loop; a failing copy2 is passed over.
PipeCopy ==
    /\ pl_pc = "copying" /\ review.i < Cardinality(ReviewSources)
    /\ \E ok \in BOOLEAN :
          review' = [review EXCEPT !.i = @ + 1,
                                   !.copied = IF ok THEN @ \cup {review.i + 1} ELSE @]
    /\ UNCHANGED <<steps, pl_pc, enforce_initials, variant, nationality, needs_manual_review,
                   right_raw, initials_norm, r_surname, fio_ret, fio, conflict,
                   parsed, result>>
    /\ OnlyPipe

\* Lines 604-608: the marker note; a failing write is passed over.
PipeWriteMarker ==
    /\ pl_pc = "copying" /\ review.i = Cardinality(ReviewSources)
    /\ \E ok \in BOOLEAN : review' = [review EXCEPT !.readme = ok]
    /\ pl_pc' = "routed"
    /\ UNCHANGED <<steps, enforce_initials, variant, nationality, needs_manual_review,
                   right_raw, initials_norm, r_surname, fio_ret, fio, conflict,
                   parsed, result>>
    /\ OnlyPipe

\* Line 610: the result is returned.
PipeReturn ==
    /\ \/ pl_pc = "assembled" /\ ~needs_manual_review
       \/ pl_pc = "routed"
    /\ pl_pc' = "done"
    /\ UNCHANGED <<steps, review, enforce_initials, variant, nationality, needs_manual_review,
                   right_raw, initials_norm, r_surname, fio_ret, fio, conflict,
                   parsed, result>>
    /\ OnlyPipe

\* call_vllm raises (line 230): the run ends with the exception.
PipeCallFails ==
    /\ pl_pc \in {"start", "regions_cropped", "nationality_read", "bandread"}
    /\ steps' = Append(steps, Step(next_call(pl_pc),
                                   IF pl_pc = "bandread"
                                   THEN fio_hints(r_surname, initials_norm)
                                   ELSE <<>>))
    /\ pl_pc' = "error"
    /\ UNCHANGED <<review, enforce_initials, variant, nationality, needs_manual_review,
                   right_raw, initials_norm, r_surname, fio_ret, fio, conflict,
                   parsed, result>>
    /\ OnlyPipe

NextPipe ==
    \/ PipeDetectVariant \/ PipeCrop \/ PipeNationality \/ PipeSanity
    \/ PipeReviewFlag \/ PipeBand \/ PipeFio \/ PipeEnforce \/ PipeReconcile
    \/ PipeAssemble \/ PipeEnsureReviewDir \/ PipeCopy \/ PipeWriteMarker
    \/ PipeReturn \/ PipeCallFails

SpecPipe == InitPipe /\ [][NextPipe]_vars

(***************************************************************************)
(* Properties of run_pipeline                                              *)
(***************************************************************************)

\* C1: in every pipeline result whose nationality record has is_jewish true
\* or false and confidence 0, 0.5 or 1.0, the manual-review flag is true
\* exactly when is_jewish is false and the confidence is below 1.0.
C1_ManualReviewFlag ==
    (pl_pc = "done" /\ result.nationality.isdict
        /\ result.nationality.is_jewish \in {"True", "False"}
        /\ result.nationality.confidence \in {<<0>>, <<5>>, <<ConfOne>>})
    => (result.needs_manual_review
          <=> (/\ result.nationality.is_jewish = "False"
               /\ result.nationality.confidence[1] < ConfOne))

\* C1 witness: a result with is_jewish false at confidence 0.5, flagged.
C1_Witness ==
    /\ pl_pc = "done" /\ result.nationality.isdict
    /\ result.nationality.is_jewish = "False"
    /\ result.nationality.confidence = <<5>>
    /\ result.needs_manual_review

\* The front-page text gave three tokens and the reconciliation has run.
Reconciled ==
    /\ pl_pc \in {"reconciled", "assembled", "copying", "routed", "done"}
    /\ fio_ret.isdict /\ parsed # <<>>

\* The provided and the derived initial of slot i (2 the name, 3 the
\* patronymic) are both non-empty and differ.
SlotDiffers(i) ==
    LET provided == IF i = 2 THEN initials_norm.name ELSE initials_norm.patronymic
        derived  == FirstCyrMapped(parsed[i])
    IN  provided # <<>> /\ derived # <<>> /\ provided # derived

ConflictRule ==
    /\ conflict <=> (SlotDiffers(2) \/ SlotDiffers(3))
    /\ conflict => /\ fio.surname = parsed[1] /\ fio.name = parsed[2]
                   /\ fio.patronymic = parsed[3]
                   /\ fio.checks.resolution = "prefer_left_fio_due_to_initials_conflict"
    /\ ~conflict => fio.checks.resolution = "ok_or_no_conflict"

\* The enforce-initials post-check set the returned patronymic to null.
PatronymicDropped ==
    /\ enforce_initials /\ fio_ret.patronymic # Null
    /\ initials_norm.patronymic # <<>>
    /\ ~startswith(upper(fio_ret.patronymic), initials_norm.patronymic)

\* C3 as stated: with three front-page tokens a conflict is declared exactly
\* when a slot's provided and derived initials are both non-empty and differ;
\* on conflict the three fields are the tokens, tagged prefer-left; without
\* conflict the three fields are as the FIO call returned them, tagged
\* ok_or_no_conflict.
C3_AsReturnedWithoutConflict ==
    Reconciled =>
        /\ ConflictRule
        /\ ~conflict => /\ fio.surname = fio_ret.surname /\ fio.name = fio_ret.name
                        /\ fio.patronymic = fio_ret.patronymic

\* C3, amended: as above, except that without conflict the patronymic is the
\* returned one only if the enforce-initials post-check did not drop it; if it
\* did, the patronymic is null.
C3_Reconciliation ==
    Reconciled =>
        /\ ConflictRule
        /\ ~conflict => /\ fio.surname = fio_ret.surname /\ fio.name = fio_ret.name
                        /\ fio.patronymic = IF PatronymicDropped THEN Null
                                            ELSE fio_ret.patronymic

\* C3 witness: band initial М against front-page name "Пет"; the record took
\* the three tokens in place of the returned surname "Ива".
C3_Witness ==
    /\ Reconciled /\ conflict
    /\ initials_norm.name = <<1052>>
    /\ parsed = <<<<1048, 1074>>, <<1055, 1077, 1090>>, <<1057, 1077, 1084>>>>
    /\ fio_ret.surname = <<1048, 1074, 1072>> /\ fio.surname = <<1048, 1074>>
    /\ fio.checks.resolution = "prefer_left_fio_due_to_initials_conflict"

\* C11: the sanity filter and the reconciliation step never raise, whatever
\* JSON value the nationality and the FIO call returned.
C11_NeverRaise == pl_pc \notin {"raised_in_sanity", "raised_in_reconcile"}

\* C15: for a flagged pair no failure of a filesystem operation of the
\* routing step ends run_pipeline with an exception.
C15_RoutingNeverRaises == pl_pc # "raised_in_routing"

(***************************************************************************)
(* Further properties of download_image_range                              *)
(***************************************************************************)

\* The number of entries of the error list that carry index i.
ErrorsOf(i) == Cardinality({k \in 1..Len(errors) : errors[k] = i})

\* C12: with retries >= 0, an index left without a completed file when its
\* loop has ended was attempted exactly retries+1 times and has exactly one
\* entry in the error list; the run goes on, and when it returns every index
\* of the range has either its completed file and no entry, or exactly one
\* entry.
C12_FailedIndexRecordedOnce ==
    job.retries >= 0 =>
        /\ (d_pc = "sleep" /\ idx \notin Completed) =>
               attempt = job.retries + 1 /\ ErrorsOf(idx) = 1
        /\ d_pc = "returned" =>
               \A i \in Range : ErrorsOf(i) = IF i \in Completed THEN 0 ELSE 1

\* C12 witness: every attempt of index 1 failed (retries = MaxRetries); the
\* run went on, downloaded index 2 and returned.
C12_Witness ==
    /\ d_pc = "returned" /\ run = 1 /\ job.retries = MaxRetries
    /\ errors = <<1>> /\ final[1] = Absent /\ final[2] = File(Body(2))

\* C13: a final name changes only by the rename of its sidecar once the body
\* was streamed to its end, the sidecar then holding the whole body; every
\* other step, a failed or interrupted attempt included, leaves the final
\* names as they were.
C13_FinalOnlyByPromotion ==
    [][\A i \in 1..MaxIdx :
          final'[i] # final[i] =>
              /\ i = idx /\ d_pc = "stream" /\ sent = Len(resp)
              /\ final'[i] = part[i] /\ part[i] = File(Body(i))]_vars

\* C13 witness: an attempt for index 2 failed after one chunk: the chunk is in
\* the sidecar, the final name is absent, and index 1 has its whole body.
C13_Witness ==
    /\ d_pc = "while" /\ idx = 2 /\ attempt >= 1
    /\ part[2] = File(<<Body(2)[1]>>) /\ final[2] = Absent
    /\ final[1] = File(Body(1))

\* C19: an attempt whose Range request was answered 416, or 200 with the full
\* body, promotes exactly the bytes of the full body.
C19_RestartFromZero ==
    [][(/\ d_pc = "stream" /\ d_pc' = "sleep"
        /\ (status = 416 \/ (status = 200 /\ rangeHdr)))
       => final'[idx] = File(Body(idx))]_vars

\* C19 witness: resume is on, the Range request of this attempt was answered
\* 416, and the promoted file is the full body.
C19_Witness ==
    /\ d_pc = "sleep" /\ job.resume /\ status = 416
    /\ final[idx] = File(Body(idx)) /\ part[idx] = Absent

\* C20: while the function runs, the delays taken are exactly one for each
\* index before the current one, in order: none is started and the function
\* does not return before the delay of the index before.
C20_DelayAfterEveryIndex ==
    d_pc \in {"index", "while", "request", "request2", "stream", "sleep", "returned"}
        => slept = [k \in 1..(idx - 1) |-> k]

\* C20 witness: index 1 failed after its last attempt, index 2 was
\* downloaded, and a delay followed each of them before the return.
C20_Witness ==
    /\ d_pc = "returned" /\ run = 1 /\ errors = <<1>> /\ downloaded = 1
    /\ slept = <<1, 2>>

\* C20, second witness of outcomes: a skipped index was followed by its delay.
SkippedThenSlept == d_pc = "returned" /\ run = 2 /\ skipped = 1 /\ slept = <<1, 2>>

(***************************************************************************)
(* run_batch / run_batch_from_pairs                                        *)
(***************************************************************************)

\* Bound on the number of pairs of a batch.
MaxPairs == 3

\* An item of the results list; a pair is named by its position.
Item(k, kind) == [pair |-> k, kind |-> kind]

\* The items of the list `items` that name pair k and are of the given kind.
ItemsOf(items, k, kind) == {n \in 1..Len(items) : items[n] = Item(k, kind)}

\* A slip of the except clause: the exception is dropped without an item.
drop_error(items, k) == items

\* Lines 668 / 738: results.append({"pair": [p1, p2], "error": str(e)}).
append_error(items, k) == Append(items, Item(k, "error"))

OnlyBatch == UNCHANGED <<parseVars, normVars, sanVars, cropVars, pairVars, dlVars,
                         pipeVars, classVars, jsonVars,
    treeVars, workVars>>

\* Lines 637-639 / 725-726: the pairs are known and the results list is empty.
InitBatch ==
    /\ b_pc = "loop" /\ b_fn \in {"run_batch", "run_batch_from_pairs"}
    /\ b_n \in 0..MaxPairs /\ b_i = 1 /\ b_flag = FALSE
    /\ b_items = <<>> /\ b_saved = {} /\ b_raised = {}
    /\ IdleParse /\ IdleNorm /\ IdleSan /\ IdleCrop /\ IdlePair /\ IdleDl /\ IdlePipe
    /\ IdleClass /\ IdleJson /\ IdleTree /\ IdleWork

\* Lines 641-643 / 728-730: the output directory of the pair; ensure_dir is
\* called before the try, so its failure ends the batch.
BatchEnsureDir ==
    /\ b_pc = "loop" /\ b_i <= b_n
    /\ \E ok \in BOOLEAN : b_pc' = IF ok THEN "run" ELSE "raised"
    /\ UNCHANGED <<b_fn, b_n, b_i, b_flag, b_items, b_saved, b_raised>>
    /\ OnlyBatch

\* Lines 645-647 / 732-734: run_pipeline returns a result, flagged or not,
\* and the result item is appended.
BatchPipelineReturns ==
    /\ b_pc = "run"
    /\ b_flag' \in BOOLEAN
    /\ b_items' = Append(b_items, Item(b_i, "result"))
    /\ b_pc' = "write"
    /\ UNCHANGED <<b_fn, b_n, b_i, b_saved, b_raised>>
    /\ OnlyBatch

\* Lines 645 and 667-668 / 732 and 737-738: run_pipeline raises (a failed
\* model call, a file-I/O error); the except clause records the pair.
BatchPipelineRaises ==
    /\ b_pc = "run"
    /\ b_raised' = b_raised \cup {b_i}
    /\ b_items' = append_error(b_items, b_i)
    /\ b_pc' = "next"
    /\ UNCHANGED <<b_fn, b_n, b_i, b_flag, b_saved>>
    /\ OnlyBatch

\* Lines 648-649 / 735-736: result.json is written; a failing open or dump is
\* caught by the same except clause.
BatchWriteResult ==
    /\ b_pc = "write"
    /\ \E ok \in BOOLEAN :
          IF ok
          THEN /\ b_saved' = b_saved \cup {b_i}
               /\ b_pc' = IF b_fn = "run_batch" /\ b_flag THEN "review" ELSE "next"
               /\ UNCHANGED b_items
          ELSE /\ b_items' = append_error(b_items, b_i)
               /\ b_pc' = "next"
               /\ UNCHANGED b_saved
    /\ UNCHANGED <<b_fn, b_n, b_i, b_flag, b_raised>>
    /\ OnlyBatch

\* Lines 652-665 (run_batch only): a flagged pair is copied to the central
\* holding directory.  A failing ensure_dir(review_root) reaches the outer
\* except clause, a failing copy the inner one.
BatchReviewCopy ==
    /\ b_pc = "review"
    /\ \E outcome \in {"ok", "ensure_dir_fails", "copy_fails"} :
          b_items' = CASE outcome = "ok" -> b_items
                       [] outcome = "ensure_dir_fails" -> append_error(b_items, b_i)
                       [] outcome = "copy_fails" ->
                              Append(b_items, Item(b_i, "manual_review_copy_error"))
    /\ b_pc' = "next"
    /\ UNCHANGED <<b_fn, b_n, b_i, b_flag, b_saved, b_raised>>
    /\ OnlyBatch

\* The for loop takes the next pair.
BatchNextPair ==
    /\ b_pc = "next"
    /\ b_i' = b_i + 1
    /\ b_pc' = "loop"
    /\ UNCHANGED <<b_fn, b_n, b_flag, b_items, b_saved, b_raised>>
    /\ OnlyBatch

\* Lines 669 / 739: {"count": len(results), "items": results}.
BatchReturn ==
    /\ b_pc = "loop" /\ b_i > b_n
    /\ b_pc' = "returned"
    /\ UNCHANGED <<b_fn, b_n, b_i, b_flag, b_items, b_saved, b_raised>>
    /\ OnlyBatch

NextBatch ==
    \/ BatchEnsureDir \/ BatchPipelineReturns \/ BatchPipelineRaises
    \/ BatchWriteResult \/ BatchReviewCopy \/ BatchNextPair \/ BatchReturn

SpecBatch == InitBatch /\ [][NextBatch]_vars

\* C16: a pair whose pipeline run raised has exactly one error item and no
\* result item; the loop goes on, and a batch that returns has run every
\* pair: each has an item.
C16_ErrorAbortsOnlyThatPair ==
    /\ \A k \in b_raised :
          /\ Cardinality(ItemsOf(b_items, k, "error")) = 1
          /\ ItemsOf(b_items, k, "result") = {}
    /\ b_i \in b_raised => b_pc = "next"
    /\ b_pc = "returned" =>
          \A k \in 1..b_n : \E n \in 1..Len(b_items) : b_items[n].pair = k

\* C16 witness: the pipeline run of pair 1 raised; pairs 2 and 3 were run
\* after it and have their results.
C16_Witness ==
    /\ b_pc = "returned" /\ b_n = MaxPairs /\ b_raised = {1}
    /\ b_items = <<Item(1, "error"), Item(2, "result"), Item(3, "result")>>

\* C17: a batch that returns holds exactly one item for each pair, a result
\* or an error, so count equals the number of pairs; a pair with a result
\* item has its result.json persisted.
C17_OneItemPerPair ==
    b_pc = "returned" =>
        /\ Len(b_items) = b_n
        /\ \A k \in 1..b_n :
              /\ Cardinality(ItemsOf(b_items, k, "result")
                             \cup ItemsOf(b_items, k, "error")) = 1
              /\ ItemsOf(b_items, k, "result") # {} => k \in b_saved

(***************************************************************************)
(* classify_directory                                                      *)
(***************************************************************************)

\* Bound on the number of image files of the directory.
MaxImages == 3

PageTypes == {"page1", "page2", "other"}

\* The parsed answers of the classification call: no dict, or a dict whose
\* type is one of the three, another string, or missing.
ClassAnswers ==
    {[isdict |-> FALSE, type |-> None]} \cup
    {[isdict |-> TRUE, type |-> t] : t \in PageTypes \cup {"cover", None}}

\* step_classify_page_from_crops, lines 445-447: the type of the answer,
\* "other" when it is missing or not one of the three.
step_classify_page_from_crops(ans) ==
    LET t == IF ans.isdict /\ ans.type # None THEN ans.type ELSE "other"
    IN  IF t \in PageTypes THEN t ELSE "other"

\* classified.get(t, classified["other"]).append(fp)
append_to(lists, t, fp) ==
    IF t \in PageTypes THEN [lists EXCEPT ![t] = Append(@, fp)]
    ELSE [lists EXCEPT !.other = Append(@, fp)]

OnlyClass == UNCHANGED <<parseVars, normVars, sanVars, cropVars, pairVars, dlVars,
                         pipeVars, batchVars, jsonVars,
    treeVars, workVars>>

\* Lines 675-681: the files are found and sorted (named by their position),
\* the lists and the mapping are empty.
InitClass ==
    /\ k_pc = "loop" /\ k_n \in 0..MaxImages /\ k_i = 1
    /\ k_classified = [page1 |-> <<>>, page2 |-> <<>>, other |-> <<>>]
    /\ k_details = <<>>
    /\ IdleParse /\ IdleNorm /\ IdleSan /\ IdleCrop /\ IdlePair /\ IdleDl /\ IdlePipe
    /\ IdleBatch /\ IdleJson /\ IdleTree /\ IdleWork

\* Lines 683-696: the file is opened and classified, entered in the list of
\* its type and in the mapping.
ClassifyFile ==
    /\ k_pc = "loop" /\ k_i <= k_n
    /\ \E ans \in ClassAnswers :
          LET t == step_classify_page_from_crops(ans)
          IN  /\ k_classified' = append_to(k_classified, t, k_i)
              /\ k_details' = Append(k_details, t)
    /\ k_i' = k_i + 1
    /\ UNCHANGED <<k_pc, k_n>>
    /\ OnlyClass

\* Lines 697-699: Image.open or the classification call raised; the mapping
\* records the type "error" and the file goes to the list other.
ClassifyFileFails ==
    /\ k_pc = "loop" /\ k_i <= k_n
    /\ k_details' = Append(k_details, "error")
    /\ k_classified' = append_to(k_classified, "other", k_i)
    /\ k_i' = k_i + 1
    /\ UNCHANGED <<k_pc, k_n>>
    /\ OnlyClass

\* Line 700.
ClassifyReturn ==
    /\ k_pc = "loop" /\ k_i > k_n
    /\ k_pc' = "done"
    /\ UNCHANGED <<k_n, k_i, k_classified, k_details>>
    /\ OnlyClass

NextClass == ClassifyFile \/ ClassifyFileFails \/ ClassifyReturn

SpecClass == InitClass /\ [][NextClass]_vars

\* The number of places of file fp in the list of type t.
PlacesIn(t, fp) ==
    Cardinality({n \in 1..Len(k_classified[t]) : k_classified[t][n] = fp})

\* C18: after classify_directory every file is a key of the mapping, its
\* recorded type is page1, page2 or other, and the file is once in the list
\* of that type and in no other list.
C18_TypeNamesTheList ==
    k_pc = "done" =>
        /\ Len(k_details) = k_n
        /\ \A fp \in 1..k_n :
              /\ k_details[fp] \in PageTypes
              /\ \A t \in PageTypes :
                    PlacesIn(t, fp) = IF t = k_details[fp] THEN 1 ELSE 0

\* The partition alone: every file is once in exactly one of the three lists.
ListsPartitionFiles ==
    k_pc = "done" =>
        \A fp \in 1..k_n :
            \E t \in PageTypes :
                /\ PlacesIn(t, fp) = 1
                /\ \A u \in PageTypes \ {t} : PlacesIn(u, fp) = 0

(***************************************************************************)
(* The JSON files of a session: writers (src/app.py, run_batch) and        *)
(* concurrent readers                                                      *)
(***************************************************************************)

\* A document is written in DocLen chunks; a session writes at most
\* MaxWrites documents.
DocLen == 2
MaxWrites == 3

\* progress.json, the session result.json of an upload, async_result.json and
\* the per-pair result.json of a batch.
JsonFiles == {"progress.json", "result.json", "async_result.json", "pair/result.json"}

\* _write_json_atomic: tmp = path + ".tmp".
tmp_of(path) ==
    CASE path = "progress.json" -> "progress.json.tmp"
      [] path = "result.json" -> "result.json.tmp"
      [] path = "async_result.json" -> "async_result.json.tmp"
      [] path = "pair/result.json" -> "pair/result.json.tmp"

\* The writer of each file: progress.json goes through _write_json_atomic
\* (app.py lines 300, 316, 369, 373); the result files are opened under their
\* final name (app.py lines 92 and 366, pipeline lines 648 and 735).
writes_atomically(path) == path = "progress.json"

\* The name the writer of `path` opens for writing.
opened_for(path) == IF writes_atomically(path) THEN tmp_of(path) ELSE path

\* What a reader has seen; nothing yet.
NoRead == [path |-> None, data |-> <<>>]

OnlyJson == UNCHANGED <<parseVars, normVars, sanVars, cropVars, pairVars, dlVars,
                        pipeVars, batchVars, classVars,
    treeVars, workVars>>

InitJson ==
    /\ j_pc = "rest" /\ j_path = None /\ j_ver = 0
    /\ j_disk = [f \in JsonFiles \cup {tmp_of(path) : path \in JsonFiles} |-> Absent]
    /\ j_seen = NoRead
    /\ IdleParse /\ IdleNorm /\ IdleSan /\ IdleCrop /\ IdlePair /\ IdleDl /\ IdlePipe
    /\ IdleBatch /\ IdleClass /\ IdleTree /\ IdleWork

\* open(name, 'w'): the file is created or truncated.
JsonOpen ==
    /\ j_pc = "rest" /\ j_ver < MaxWrites
    /\ \E path \in JsonFiles :
          /\ j_path' = path
          /\ j_disk' = [j_disk EXCEPT ![opened_for(path)] = File(<<>>)]
    /\ j_ver' = j_ver + 1
    /\ j_pc' = "writing"
    /\ UNCHANGED j_seen
    /\ OnlyJson

\* json.dump: one more chunk of the document reaches the file.
JsonDump ==
    /\ j_pc = "writing" /\ Len(j_disk[opened_for(j_path)].data) < DocLen
    /\ j_disk' = [j_disk EXCEPT ![opened_for(j_path)] = File(Append(@.data, j_ver))]
    /\ UNCHANGED <<j_pc, j_path, j_ver, j_seen>>
    /\ OnlyJson

\* The with block ends; _write_json_atomic then renames the staging file to
\* the final name (os.replace, app.py line 283).
JsonClose ==
    /\ j_pc = "writing" /\ Len(j_disk[opened_for(j_path)].data) = DocLen
    /\ j_disk' = IF writes_atomically(j_path)
                 THEN [j_disk EXCEPT ![j_path] = j_disk[tmp_of(j_path)],
                                     ![tmp_of(j_path)] = Absent]
                 ELSE j_disk
    /\ j_pc' = "rest" /\ j_path' = None
    /\ UNCHANGED <<j_ver, j_seen>>
    /\ OnlyJson

\* A reader (the /progress and /results handlers, app.py lines 424-428 and
\* 439-443) finds the final name and reads the file as it is.
JsonRead ==
    /\ \E path \in JsonFiles :
          /\ j_disk[path].exists
          /\ j_seen' = [path |-> path, data |-> j_disk[path].data]
    /\ UNCHANGED <<j_pc, j_path, j_ver, j_disk>>
    /\ OnlyJson

NextJson == JsonOpen \/ JsonDump \/ JsonClose \/ JsonRead

SpecJson == InitJson /\ [][NextJson]_vars

\* C14: a reader of a final name never reads a partially written document.
C14_NoPartialRead == j_seen # NoRead => Len(j_seen.data) = DocLen

\* The same for progress.json alone.
ProgressNeverPartial ==
    j_seen.path = "progress.json" => Len(j_seen.data) = DocLen

(***************************************************************************)
(* Order of the steps of run_pipeline                                      *)
(***************************************************************************)

CallOps == {"call_variant", "call_nationality", "call_band", "call_fio"}

CallOrder == <<"call_variant", "call_nationality", "call_band", "call_fio">>

IsCall(e) == e.op \in CallOps

\* The model calls of the run, in the order they were issued.
Calls == SelectSeq(steps, IsCall)

\* The places of the log that hold the step op.
PlacesOf(op) == {k \in 1..Len(steps) : steps[k].op = op}

\* C21: the calls issued so far are the first ones of variant, nationality,
\* band, FIO, in that order and each once; a call is issued only when what
\* the log holds before it is complete (the previous call returned and its
\* result was worked up); a run that ended with an exception ended in its
\* last call or step and issued nothing after it; the hints of the FIO call
\* are the band call's surname and its initials, normalized.
C21_CallsInOrder ==
    /\ Len(Calls) <= Len(CallOrder)
    /\ \A k \in 1..Len(Calls) : Calls[k].op = CallOrder[k]
    /\ \A k \in PlacesOf("call_nationality") : steps[k - 1].op = "call_variant"
    /\ \A k \in PlacesOf("call_band") : steps[k - 1].op = "flag"
    /\ \A k \in PlacesOf("call_fio") : steps[k - 1].op = "call_band"
    /\ pl_pc = "error" => IsCall(steps[Len(steps)])
    /\ \A k \in PlacesOf("call_fio") :
          steps[k].hints =
              IF right_raw.isdict
              THEN <<right_raw.surname, FirstCyrMapped(right_raw.initials.name),
                     FirstCyrMapped(right_raw.initials.patronymic)>>
              ELSE << <<>>, <<>>, <<>> >>

\* C21 witness: a finished run with the four calls; the band call read the
\* patronymic initial "с." and the FIO call was given "С".
C21_Witness ==
    /\ pl_pc = "done" /\ Len(Calls) = 4
    /\ right_raw.isdict /\ right_raw.initials.patronymic = <<1089, 46>>
    /\ Calls[4].hints = << <<1048, 1074>>, <<1055>>, <<1057>> >>

\* What the log shows of the filter and the flag.
FilterAndFlagOnce ==
    /\ Cardinality(PlacesOf("sanity")) <= 1
    /\ Cardinality(PlacesOf("flag")) <= 1
    /\ \A k \in PlacesOf("sanity") : k > 1 /\ steps[k - 1].op = "call_nationality"
    /\ \A k \in PlacesOf("call_nationality") :
          k < Len(steps) => steps[k + 1].op = "sanity"
    /\ \A k \in PlacesOf("flag") : k > 1 /\ steps[k - 1].op = "sanity"
    /\ \A k \in PlacesOf("call_band") \cup PlacesOf("call_fio") \cup PlacesOf("reconcile") :
          \E j \in PlacesOf("flag") : j < k
    /\ pl_pc = "done" =>
          /\ Cardinality(PlacesOf("sanity")) = 1 /\ Cardinality(PlacesOf("flag")) = 1
          /\ result.nationality = nationality
          /\ result.needs_manual_review = needs_manual_review

\* C22: the sanity filter runs once, directly after the nationality call; the
\* review flag is evaluated once, directly after the filter and before the
\* band call, the FIO call and the reconciliation; once the flag is
\* evaluated no step changes the record or the flag.
C22_FilterOnceFlagOnce ==
    /\ []FilterAndFlagOnce
    /\ [][PlacesOf("flag") # {} =>
            /\ nationality' = nationality
            /\ needs_manual_review' = needs_manual_review]_vars

\* C22 witness: a finished run whose record was forced to false by a marker,
\* so that the flag, evaluated on the filtered record, is off.
C22_Witness ==
    /\ pl_pc = "done" /\ nationality.isdict
    /\ nationality.reason[1] = "forced_false_by_marker"
    /\ ~needs_manual_review /\ result.nationality = nationality

\* C24: when the FIO call returned an object (without a checks field of its
\* own), the FIO record of the result carries a resolution tag: prefer-left
\* on conflict, ok_or_no_conflict otherwise.
C24_ResolutionAlwaysTagged ==
    (pl_pc = "done" /\ fio_ret.isdict /\ fio_ret.checks.resolution = "absent") =>
        result.fio.checks.resolution =
            IF conflict THEN "prefer_left_fio_due_to_initials_conflict"
            ELSE "ok_or_no_conflict"

\* C29: with enforce-initials on and a non-empty provided patronymic initial,
\* the patronymic of the result's FIO record is null or begins with that
\* initial.
C29_PatronymicAgreesWithInitial ==
    (pl_pc = "done" /\ enforce_initials /\ fio_ret.isdict
        /\ initials_norm.patronymic # <<>>) =>
        \/ result.fio.patronymic = Null
        \/ startswith(upper(result.fio.patronymic), initials_norm.patronymic)

\* C25: a second application of fix_nationality_sanity to its own output
\* leaves is_jewish, confidence and reason (and the match) as the first one
\* made them; an application to a record whose match is empty or missing
\* leaves the whole record as it was.
C25_Idempotent ==
    [][/\ s_pc = "once" =>
            /\ nat'.is_jewish = nat.is_jewish /\ nat'.confidence = nat.confidence
            /\ nat'.reason = nat.reason /\ nat'.match = nat.match
       /\ (s_pc \in {"call", "once"} /\ nat.match = <<>>) => nat' = nat]_vars

\* C25 witness: the filter was applied twice to a record without marker; the
\* note is the one of the first pass.
C25_Witness ==
    /\ s_pc = "twice" /\ nat.match = <<1088>>
    /\ nat.reason = <<"as_reported", <<>>>> /\ nat.confidence = <<5>>

\* C23: for every rectangle a region config can hold and every pad >= 0, the
\* pixel box lies within the image: 0 <= X0, X1 <= width, 0 <= Y0, Y1 <= height.
C23_BoxWithinImage ==
    c_pc = "done" =>
        /\ 0 <= c_box[1] /\ c_box[1] <= c_in.w /\ 0 <= c_box[3] /\ c_box[3] <= c_in.w
        /\ 0 <= c_box[2] /\ c_box[2] <= c_in.h /\ 0 <= c_box[4] /\ c_box[4] <= c_in.h

\* C27: when download_image_range returns, every index of the range is
\* accounted for exactly once: downloaded + skipped + the number of error
\* entries equals the number of indices, whatever the server did and whatever
\* integer retries is, zero and negative values included.
C27_EveryIndexAccounted ==
    d_pc = "returned" => downloaded + skipped + Len(errors) = job.end

(***************************************************************************)
(* The output subdirectories of the pairs of a batch                       *)
(***************************************************************************)

\* Bound on the number of files of the input directory.
MaxDirFiles == 4

\* The code points of ".", "/" and "_".
Dot == 46
Slash == 47
Underscore == 95

\* Line 617: the patterns of discover_pairs, as the suffixes they demand:
\* ".jpg", ".jpeg", ".png", ".JPG", ".JPEG", ".PNG".
exts == {<<Dot, 106, 112, 103>>, <<Dot, 106, 112, 101, 103>>, <<Dot, 112, 110, 103>>,
         <<Dot, 74, 80, 71>>, <<Dot, 74, 80, 69, 71>>, <<Dot, 80, 78, 71>>}

\* The file names a directory may hold: the stems "a" and "b" with each of
\* the six suffixes, and "a.t", which no pattern matches.
DirNames == {stem \o e : stem \in {<<97>>, <<98>>}, e \in exts} \cup {<<97, Dot, 116>>}

\* The directory "d" of the batch.
DirPath == <<100>>

\* os.path.join(input_dir, name).
join(dir, name) == dir \o <<Slash>> \o name

\* The last position of code point c in s, 0 when there is none.
LastIndexOf(s, c) ==
    LET at == {i \in 1..Len(s) : s[i] = c}
    IN  IF at = {} THEN 0 ELSE CHOOSE i \in at : \A j \in at : j <= i

\* os.path.basename(path): what follows the last "/".
basename(path) == SubSeq(path, LastIndexOf(path, Slash) + 1, Len(path))

\* os.path.splitext(name)[0]: the name up to its last ".", the whole name
\* when it has none or only leading ones.
splitext_root(name) ==
    LET k == LastIndexOf(name, Dot)
    IN  IF k > 0 /\ \E i \in 1..(k - 1) : name[i] # Dot
        THEN SubSeq(name, 1, k - 1) ELSE name

\* glob.glob(os.path.join(input_dir, ext)) of one pattern: the paths of the
\* names that end with the suffix.
glob(dir, names, e) ==
    {join(dir, n) : n \in {m \in names : /\ Len(m) > Len(e)
                                         /\ SubSeq(m, Len(m) - Len(e) + 1, Len(m)) = e}}

\* Lines 615-626: the files of every pattern, sorted, paired (0,1), (2,3), ...
discover_pairs(dir, names) ==
    LET files == sorted(UNION {glob(dir, names, e) : e \in exts})
    IN  [k \in 1..(Len(files) \div 2) |-> <<files[2 * k - 1], files[2 * k]>>]

\* Lines 641 / 728: the name of the pair's subdirectory, stem1__stem2.
pair_name(p1, p2) ==
    splitext_root(basename(p1)) \o <<Underscore, Underscore>> \o splitext_root(basename(p2))

\* Lines 642 / 729: pair_outdir, under the output directory "o".
pair_outdir(pair) == join(<<111>>, pair_name(pair[1], pair[2]))

OnlyTree == UNCHANGED <<parseVars, normVars, sanVars, cropVars, pairVars, dlVars,
                        pipeVars, batchVars, classVars, jsonVars, workVars>>

InitTree ==
    /\ o_pc = "call"
    /\ input_dir \in {S \in SUBSET DirNames : Cardinality(S) <= MaxDirFiles}
    /\ o_pairs = <<>> /\ o_i = 0 /\ o_tree = {}
    /\ IdleParse /\ IdleNorm /\ IdleSan /\ IdleCrop /\ IdlePair /\ IdleDl /\ IdlePipe
    /\ IdleBatch /\ IdleClass /\ IdleJson /\ IdleWork

\* Lines 637-639: the pairs of the input directory.
TreeDiscover ==
    /\ o_pc = "call"
    /\ o_pairs' = discover_pairs(DirPath, input_dir)
    /\ o_i' = 1 /\ o_pc' = "loop"
    /\ UNCHANGED <<input_dir, o_tree>>
    /\ OnlyTree

\* Lines 641-649 / 728-736: the pair's run writes its crops and its
\* result.json into pair_outdir, replacing what the directory held.
TreeRunPair ==
    /\ o_pc = "loop" /\ o_i <= Len(o_pairs)
    /\ LET d == pair_outdir(o_pairs[o_i])
       IN  o_tree' = {e \in o_tree : e.dir # d} \cup {[dir |-> d, pair |-> o_i]}
    /\ o_i' = o_i + 1
    /\ UNCHANGED <<o_pc, input_dir, o_pairs>>
    /\ OnlyTree

\* Lines 669 / 739.
TreeReturn ==
    /\ o_pc = "loop" /\ o_i > Len(o_pairs)
    /\ o_pc' = "returned"
    /\ UNCHANGED <<input_dir, o_pairs, o_i, o_tree>>
    /\ OnlyTree

NextTree == TreeDiscover \/ TreeRunPair \/ TreeReturn

SpecTree == InitTree /\ [][NextTree]_vars

\* C26: two distinct pairs of a batch never get the same output subdirectory,
\* so that when the batch returns every pair's subdirectory still holds what
\* that pair's run wrote; this holds also for pairs whose file names differ
\* only in their extension.
C26_DisjointSubtrees ==
    o_pc = "returned" =>
        /\ \A i, j \in 1..Len(o_pairs) :
              i # j => pair_outdir(o_pairs[i]) # pair_outdir(o_pairs[j])
        /\ \A i \in 1..Len(o_pairs) :
              [dir |-> pair_outdir(o_pairs[i]), pair |-> i] \in o_tree

\* Two pairs of distinct stems keep their subdirectories apart.
DistinctStemsApart ==
    /\ o_pc = "returned" /\ Len(o_pairs) = 2 /\ Cardinality(o_tree) = 2

(***************************************************************************)
(* _download_worker (src/app.py)                                           *)
(***************************************************************************)

\* Lines 135-142 of the pipeline: the parameters of download_image_range, and
\* those without a default.
Parameters == {"start", "end", "url_template", "dest_dir", "user_agent", "sleep_min",
               "sleep_max", "timeout", "retries", "resume"}
Required == {"start", "end", "url_template", "dest_dir"}

\* app.py lines 320-332: the keywords of the worker's call.
Keywords == {"start", "end", "url_template", "dest_dir", "user_agent", "sleep_min",
             "sleep_max", "timeout", "retries", "resume", "per_file_callback"}

\* The call binds its keywords to the parameters; Python raises TypeError
\* for a keyword the function does not have or a required parameter left out.
binds(keywords, parameters, required) ==
    keywords \subseteq parameters /\ required \subseteq keywords

\* app.py line 403: int(data.get('retries') or 2).
retries_of(given) == IF given = 0 THEN 2 ELSE given

\* No progress.json yet.
NoProgress == [status |-> "absent", result_file |-> FALSE, error |-> ""]

OnlyWork == UNCHANGED <<parseVars, normVars, sanVars, cropVars, pairVars, dlVars,
                        pipeVars, batchVars, classVars, jsonVars, treeVars>>

\* app.py lines 382-413: the parameters the handler hands to the thread
\* (end >= start), and what the thread will meet: a server that serves every
\* index or not, classification and batch steps that succeed or raise.
InitWork ==
    /\ w_pc = "start"
    /\ params \in {[total |-> t, retries |-> retries_of(r), resume |-> rs,
                    classify |-> c, then_batch |-> b] :
                       t \in 1..MaxIdx, r \in -1..MaxRetries, rs \in BOOLEAN,
                       c \in BOOLEAN, b \in BOOLEAN}
    /\ env \in [serves_all : BOOLEAN, steps_succeed : BOOLEAN]
    /\ prog = NoProgress /\ progress_json = NoProgress /\ async_result = "absent"
    /\ IdleParse /\ IdleNorm /\ IdleSan /\ IdleCrop /\ IdlePair /\ IdleDl /\ IdlePipe
    /\ IdleBatch /\ IdleClass /\ IdleJson /\ IdleTree

\* app.py lines 286-300: the progress document with status running is
\* written.
WorkerStart ==
    /\ w_pc = "start"
    /\ prog' = [status |-> "running", result_file |-> FALSE, error |-> ""]
    /\ progress_json' = prog'
    /\ w_pc' = "try"
    /\ UNCHANGED <<params, env, async_result>>
    /\ OnlyWork

\* app.py lines 318-373: the try block and its except clause.  The call of
\* download_image_range raises TypeError when it does not bind; otherwise the
\* download runs (its failures are entries of its result, not exceptions),
\* the classification and the batch run when requested and may raise, the
\* result of a batch is written whole to async_result.json before
\* result_file is set, and the progress document is written last.
WorkerRun ==
    /\ w_pc = "try"
    /\ LET raised == IF ~binds(Keywords, Parameters, Required) THEN "TypeError"
                     ELSE IF (params.classify \/ params.then_batch) /\ ~env.steps_succeed
                          THEN "Exception" ELSE ""
           saved  == raised = "" /\ params.then_batch
       IN  /\ async_result' = IF saved THEN "complete" ELSE async_result
           /\ prog' = IF raised = ""
                      THEN [prog EXCEPT !.status = "done", !.result_file = saved]
                      ELSE [prog EXCEPT !.status = "error", !.error = raised]
    /\ progress_json' = prog'
    /\ w_pc' = "ended"
    /\ UNCHANGED <<params, env>>
    /\ OnlyWork

NextWork == WorkerStart \/ WorkerRun

SpecWork == InitWork /\ [][NextWork]_vars

\* C28: a download worker always ends with a terminal status (done or
\* error) in progress.json, never running; when the server serves every
\* index and the requested classification and batch succeed the terminal
\* status is done; and result_file is in progress.json only once
\* async_result.json is completely written.
C28_WorkerEndsDone ==
    /\ w_pc = "ended" => progress_json.status \in {"done", "error"}
    /\ (w_pc = "ended" /\ env.serves_all /\ env.steps_succeed) =>
           progress_json.status = "done"
    /\ progress_json.result_file => async_result = "complete"

\* The parts of it that hold: the terminal status is never running, and
\* result_file is never published before async_result.json is whole.
TerminalAndPublishedLate ==
    /\ w_pc = "ended" => progress_json.status \in {"done", "error"}
    /\ progress_json.result_file => async_result = "complete"

====
